---------------------------- MODULE Spec2Model ----------------------------
(***************************************************************************)
(* A model of digtick's two-level minimizer: the packed ternary storage    *)
(* and value table (ValueTable.py), the expression tree and its parser     *)
(* (ExpressionParser.py), the text formatter (ExpressionFormatter.py), the *)
(* transformations (ActionTransform.py) and the Quine-McCluskey / Petrick  *)
(* pipeline (QuineMcCluskey.py).                                           *)
(*                                                                         *)
(* Text is a sequence of one-character strings.  Python lists whose order  *)
(* no caller observes are sets; where the source iterates a set or a list  *)
(* the model iterates in a fixed order (ascending minterm, ascending       *)
(* (value, mask)).  A raised exception is a record of kind "ValueError" or *)
(* "AttributeError" in the place the result would have taken.              *)
(***************************************************************************)
EXTENDS Integers, Sequences, FiniteSets, TLC

VARIABLES
    pc,                   \* position in QuineMcCluskey.all_solutions / its caller
    vt,                   \* self._vt, the ValueTable under minimization
    emit_dnf,             \* the direction flag of all_solutions / optimize
    expr_minterms,        \* mandatory minterms (QuineMcCluskey.py:347)
    dc_minterms,          \* don't-care minterms (QuineMcCluskey.py:348)
    all_implicants,       \* the dict of implicant groups at the current stage
    required_minterms,    \* result of _determine_required_minterms
    required_implicants,  \* essential implicants
    remaining_minterms,   \* mandatory minterms left for Petrick's method
    pending_minterms,     \* minterms the multiplication loop has not reached
    possible_solutions,   \* Petrick product, terms as sets of candidate bits
    qmc_solution,         \* what all_solutions returned
    yielded,              \* expressions produced by iterating qmc_solution
    result,               \* what optimize returned or raised
    stor,                 \* a CompactStorage under test
    stor_text,            \* its to_string() text
    stor_back,            \* CompactStorage.from_string(k, stor_text)
    set_log,              \* the calls of CompactStorage.__setitem__ that returned
    cur_varname,          \* the output name an operation on a table was given
    cur_index,            \* a table index: argument or value of an operation
    cur_assignment,       \* an input assignment, a dict from names to bits
    cur_compact,          \* the compact text of a table
    cur_expr,             \* an expression tree under study
    cur_other,            \* the second expression (or the dc_expression)
    cur_header,           \* the columns read from the first line of a text table
    cur_lineno,           \* the number of lines of the text table consumed
    cur_outputs,          \* the storages _parse_from_file fills
    last_token,           \* per cell, the output tokens of the last row that addressed it
    compact_is_input,     \* whether cur_compact was given rather than printed
    cur_policy,           \* the set_undefined_values_to argument of parse_from_file
    cur_row,              \* the tokens of the line of the text table read last
    expr_text,            \* the text of an expression: given to the parser or formatted
    default_empty,        \* the default_empty argument of parse_expression
    expr_format,          \* the expression_format argument of format_expression
    implicit_and,         \* the implicit_and argument of format_expression
    transformation_name   \* the transformation ActionTransform.run applied

\* The state of the operations on tables, storages and expressions
io_vars == << set_log, cur_varname, cur_index, cur_assignment, cur_compact, cur_expr,
             cur_other, cur_header, cur_lineno, cur_outputs, last_token,
             compact_is_input, cur_policy, cur_row, expr_text, default_empty,
             expr_format, implicit_and, transformation_name >>

vars == << pc, vt, emit_dnf, expr_minterms, dc_minterms, all_implicants,
           required_minterms, required_implicants, remaining_minterms,
           pending_minterms, possible_solutions, qmc_solution, yielded,
           result, stor, stor_text, stor_back, io_vars >>

-----------------------------------------------------------------------------
(* Bounds of the model.                                                    *)

\* Tables and storages over 1..MaxVars input variables are enumerated in full.
MaxVars == 2

-----------------------------------------------------------------------------
(* Integer helpers: Python's int operations on non-negative integers.      *)

RECURSIVE Pow(_, _)
Pow(b, e) == IF e = 0 THEN 1 ELSE b * Pow(b, e - 1)

\* (value >> bit) & 1
Bit(value, bit) == (value \div Pow(2, bit)) % 2

\* int.bit_length()
RECURSIVE BitLength(_)
BitLength(value) == IF value = 0 THEN 0 ELSE 1 + BitLength(value \div 2)

\* int.bit_count()
RECURSIVE BitCount(_)
BitCount(value) == IF value = 0 THEN 0 ELSE (value % 2) + BitCount(value \div 2)

\* a ^ b
RECURSIVE BitXor(_, _)
BitXor(a, b) ==
    IF a = 0 /\ b = 0 THEN 0
    ELSE ((a + b) % 2) + 2 * BitXor(a \div 2, b \div 2)

\* a | b
RECURSIVE BitOr(_, _)
BitOr(a, b) ==
    IF a = 0 /\ b = 0 THEN 0
    ELSE (IF (a % 2) + (b % 2) > 0 THEN 1 ELSE 0) + 2 * BitOr(a \div 2, b \div 2)

\* a & ~b
RECURSIVE BitAndNot(_, _)
BitAndNot(a, b) ==
    IF a = 0 THEN 0
    ELSE (IF a % 2 = 1 /\ b % 2 = 0 THEN 1 ELSE 0) + 2 * BitAndNot(a \div 2, b \div 2)

RECURSIVE SumOver(_, _)
SumOver(S, f) ==
    IF S = {} THEN 0
    ELSE LET x == CHOOSE y \in S : TRUE IN f[x] + SumOver(S \ {x}, f)

\* The elements of S as a sequence ascending in key (keys are distinct on S).
RECURSIVE SortedBy(_, _)
SortedBy(S, key) ==
    IF S = {} THEN << >>
    ELSE LET x == CHOOSE y \in S : \A z \in S : key[y] <= key[z]
         IN  << x >> \o SortedBy(S \ {x}, key)

Range(seq) == { seq[i] : i \in 1..Len(seq) }

-----------------------------------------------------------------------------
(* CompactStorage (ValueTable.py:28-102).                                  *)

Low == 0
High == 1
DontCare == 2
Undefined == 3

Entry == { Low, High, DontCare, Undefined }

\* CompactStorage.table_entry_count
table_entry_count(variable_count) == Pow(2, variable_count)

\* CompactStorage.__init__
CompactStorage(variable_count, initial_value) ==
    [ variable_count |-> variable_count, value |-> initial_value ]

\* CompactStorage.__getitem__: (self._value >> (2 * index)) & 3
GetItem(storage, index) == (storage.value \div Pow(4, index)) % 4

\* CompactStorage.__iter__: the entries at indices 0 .. 2^k - 1, as a sequence
\* whose element i + 1 is the entry at index i.
StorageIter(storage) ==
    [ i \in 1..table_entry_count(storage.variable_count) |->
        (storage.value \div Pow(4, i - 1)) % 4 ]

\* CompactStorage.has_undefined_values
has_undefined_values(storage) ==
    \E i \in 1..table_entry_count(storage.variable_count) :
        StorageIter(storage)[i] = Undefined

\* CompactStorage.__init__ without initial_value (line 48): every entry
\* Undefined.
UndefinedStorage(variable_count) ==
    CompactStorage(variable_count, Pow(2, 2 * table_entry_count(variable_count)) - 1)

\* The values a caller passes to __setitem__: a member of Entry, an int or
\* a one-character str (value holds the number, text the character).
EntryValue(value) == [ type |-> "Entry", value |-> value, text |-> "" ]
IntValue(value) == [ type |-> "int", value |-> value, text |-> "" ]
StrValue(text) == [ type |-> "str", value |-> 0, text |-> text ]

\* The two assertions of __setitem__ (lines 86 and 91)
SetItemAccepts(storage, index, entryvalue) ==
    /\ \/ entryvalue.type = "Entry"
       \/ entryvalue \in { IntValue(0), IntValue(1),
                           StrValue("0"), StrValue("1"), StrValue("*") }
    /\ 0 <= index
    /\ index < table_entry_count(storage.variable_count)

\* Lines 87-90: "*" is DontCare, anything else is int(entryvalue)
SetItemEntry(entryvalue) ==
    IF entryvalue = StrValue("*") THEN DontCare
    ELSE IF entryvalue.type = "str" THEN (IF entryvalue.text = "1" THEN 1 ELSE 0)
    ELSE entryvalue.value

\* Mutant: the new entry is or-ed in without the old one being cleared.
SetItemValue_NoClear(value, index, entry) ==
    BitOr(value, entry * Pow(2, 2 * index))

\* Lines 92-94: (self._value & ~mask) | (entryvalue << bitpos)
SetItemValue(value, index, entry) ==
    LET bitpos == 2 * index
        mask   == 3 * Pow(2, bitpos)
    IN  BitOr(BitAndNot(value, mask), entry * Pow(2, bitpos))

\* CompactStorage.__setitem__: the storage after the call, or AssertionError
\* Whether __setitem__ raised instead of storing
IsStorageError(x) == "kind" \in DOMAIN x

SetItem(storage, index, entryvalue) ==
    IF ~SetItemAccepts(storage, index, entryvalue)
    THEN [ kind |-> "AssertionError" ]
    ELSE CompactStorage(storage.variable_count,
                        SetItemValue(storage.value, index, SetItemEntry(entryvalue)))

HexDigits == << "0", "1", "2", "3", "4", "5", "6", "7",
                "8", "9", "a", "b", "c", "d", "e", "f" >>

\* f"{value:x}": at least one digit, no leading zero digit.
RECURSIVE FormatHex(_)
FormatHex(value) ==
    IF value < 16 THEN << HexDigits[value + 1] >>
    ELSE FormatHex(value \div 16) \o << HexDigits[(value % 16) + 1] >>

\* CompactStorage.to_string
to_string(storage) == FormatHex(storage.value)

HexValue(char) == (CHOOSE d \in 1..16 : HexDigits[d] = char) - 1

\* Mutant: the text is read with base 10.
RECURSIVE ParseHex_Decimal(_)
ParseHex_Decimal(text) ==
    IF Len(text) = 0 THEN 0
    ELSE 10 * ParseHex_Decimal(SubSeq(text, 1, Len(text) - 1)) + HexValue(text[Len(text)])

\* int(text, 16) for a text of lower-case hex digits
RECURSIVE ParseHex(_)
ParseHex(text) ==
    IF Len(text) = 0 THEN 0
    ELSE 16 * ParseHex(SubSeq(text, 1, Len(text) - 1)) + HexValue(text[Len(text)])

\* CompactStorage.from_string
from_string(variable_count, compact_table_str) ==
    CompactStorage(variable_count, ParseHex(compact_table_str))

-----------------------------------------------------------------------------
(* Expression trees (ExpressionParser.py:187-342).                         *)

Variable(varname) == [ kind |-> "Variable", varname |-> varname ]

Constant(value) == [ kind |-> "Constant", value |-> value ]

UnaryOperator(op, rhs) == [ kind |-> "UnaryOperator", op |-> op, rhs |-> rhs ]

BinaryOperator(lhs, op, rhs) ==
    [ kind |-> "BinaryOperator", lhs |-> lhs, op |-> op, rhs |-> rhs ]

Parenthesis(inner) == [ kind |-> "Parenthesis", inner |-> inner ]

\* ParseTreeElement.__invert__
Invert(expr) == UnaryOperator("Not", expr)

ValueError(message) == [ kind |-> "ValueError", message |-> message ]

AttributeError(message) == [ kind |-> "AttributeError", message |-> message ]

IsError(x) == x.kind \in { "ValueError", "AttributeError", "KeyError", "AssertionError" }

\* BinaryOperator.evaluate's table of operator functions
ApplyOperator(op, x, y) ==
    CASE op = "Or"   -> IF x = 1 \/ y = 1 THEN 1 ELSE 0
      [] op = "And"  -> IF x = 1 /\ y = 1 THEN 1 ELSE 0
      [] op = "Xor"  -> IF x # y THEN 1 ELSE 0
      [] op = "Nand" -> IF x = 1 /\ y = 1 THEN 0 ELSE 1
      [] op = "Nor"  -> IF x = 1 \/ y = 1 THEN 0 ELSE 1

\* evaluate(var_dict) of Variable, Constant, UnaryOperator, BinaryOperator
\* and Parenthesis
RECURSIVE Evaluate(_, _)
Evaluate(expr, var_dict) ==
    CASE expr.kind = "Variable"       -> var_dict[expr.varname]
      [] expr.kind = "Constant"       -> expr.value
      [] expr.kind = "UnaryOperator"  -> 1 - Evaluate(expr.rhs, var_dict)
      [] expr.kind = "BinaryOperator" ->
            ApplyOperator(expr.op, Evaluate(expr.lhs, var_dict),
                          Evaluate(expr.rhs, var_dict))
      [] expr.kind = "Parenthesis"    -> Evaluate(expr.inner, var_dict)

\* BinaryOperator.join: the left-nested chain of the terms, or ValueError for
\* an empty sequence.
RECURSIVE JoinTerms(_, _)
JoinTerms(op, terms) ==
    IF Len(terms) = 1 THEN terms[1]
    ELSE BinaryOperator(JoinTerms(op, SubSeq(terms, 1, Len(terms) - 1)), op,
                        terms[Len(terms)])

Join(op, terms) ==
    IF Len(terms) = 0 THEN ValueError("Cannot join empty sequence.")
    ELSE JoinTerms(op, terms)

\* ParseTreeElement.find_minterms (op = "Or") and find_maxterms (op = "And"):
\* the operands of the outermost chain of op, left to right.
RECURSIVE FindTerms(_, _)
FindTerms(expr, op) ==
    IF expr.kind = "BinaryOperator" /\ expr.op = op
    THEN FindTerms(expr.lhs, op) \o FindTerms(expr.rhs, op)
    ELSE << expr >>

\* ParseTreeElement._traverse, as ParseTreeElement.__iter__ yields it
RECURSIVE Traverse(_)
Traverse(expr) ==
    CASE expr.kind = "UnaryOperator"  -> << expr >> \o Traverse(expr.rhs)
      [] expr.kind = "BinaryOperator" ->
            << expr >> \o Traverse(expr.lhs) \o Traverse(expr.rhs)
      [] expr.kind = "Parenthesis"    -> << expr >> \o Traverse(expr.inner)
      [] OTHER                        -> << expr >>

-----------------------------------------------------------------------------
(* ValueTable (ValueTable.py:104-354).                                     *)

\* ValueTable.__init__; _named_outputs is the dict built from the zip of names
\* and storages, where a later pair replaces an earlier one of the same name.
ValueTable(input_variable_names, output_variable_names, output_values) ==
    IF Len(output_values) # Len(output_variable_names)
       \/ \E i \in 1..Len(output_values) :
             output_values[i].variable_count # Len(input_variable_names)
    THEN [ kind |-> "AssertionError" ]
    ELSE [ kind |-> "ValueTable",
           input_variable_names |-> input_variable_names,
           output_variable_names |-> output_variable_names,
           output_values |-> output_values,
           named_outputs |->
               [ name \in Range(output_variable_names) |->
                   output_values[CHOOSE i \in 1..Len(output_variable_names) :
                       /\ output_variable_names[i] = name
                       /\ \A j \in (i + 1)..Len(output_variable_names) :
                             output_variable_names[j] # name] ] ]

\* ValueTable.input_variable_count
input_variable_count(table) == Len(table.input_variable_names)

\* ValueTable._index_weights: 1 << bitno over the reversed input names
index_weights(table) ==
    [ name \in Range(table.input_variable_names) |->
        Pow(2, Len(table.input_variable_names)
               - (CHOOSE i \in 1..Len(table.input_variable_names) :
                     /\ table.input_variable_names[i] = name
                     /\ \A j \in 1..(i - 1) : table.input_variable_names[j] # name)) ]

\* ValueTable.index_to_list
index_to_list(table, index) ==
    [ i \in 1..input_variable_count(table) |->
        Bit(index, input_variable_count(table) - i) ]

\* ValueTable.index_to_dict
index_to_dict(table, index) ==
    [ name \in Range(table.input_variable_names) |->
        index_to_list(table, index)[CHOOSE i \in 1..input_variable_count(table) :
            /\ table.input_variable_names[i] = name
            /\ \A j \in (i + 1)..input_variable_count(table) :
                  table.input_variable_names[j] # name] ]

\* ValueTable.dict_to_index
dict_to_index(table, input_var_dict) ==
    SumOver({ name \in DOMAIN input_var_dict : input_var_dict[name] = 1 },
            index_weights(table))

\* ValueTable.at
at(table, input_var_dict, output_var_name) ==
    GetItem(table.named_outputs[output_var_name],
            dict_to_index(table, input_var_dict))

\* ValueTable.iter_output_variable
iter_output_variable(table, output_var_name) ==
    IF output_var_name \notin DOMAIN table.named_outputs
    THEN [ kind |-> "KeyError" ]
    ELSE [ kind |-> "entries",
           entries |-> StorageIter(table.named_outputs[output_var_name]) ]

\* str.split(separator) on a text: the pieces between the separators
RECURSIVE Split(_, _)
Split(text, separator) ==
    IF \A i \in 1..Len(text) : text[i] # separator THEN << text >>
    ELSE LET at1 == CHOOSE i \in 1..Len(text) :
                       /\ text[i] = separator
                       /\ \A j \in 1..(i - 1) : text[j] # separator
         IN  << SubSeq(text, 1, at1 - 1) >>
             \o Split(SubSeq(text, at1 + 1, Len(text)), separator)

IsHexText(text) ==
    Len(text) > 0 /\ \A i \in 1..Len(text) : text[i] \in Range(HexDigits)

\* ValueTable.from_compact_representation
from_compact_representation(compact_str) ==
    IF Len(compact_str) = 0 \/ compact_str[1] # ":"
    THEN [ kind |-> "AssertionError" ]
    ELSE LET sections == Split(SubSeq(compact_str, 2, Len(compact_str)), ":")
         IN  IF Len(sections) # 3
             THEN ValueError("unpack")
             ELSE LET input_names  == Split(sections[1], ",")
                      output_names == Split(sections[2], ",")
                      compact_data == Split(sections[3], ",")
                  IN  IF Len(output_names) # Len(compact_data)
                      THEN ValueError("Format specifies a different number of output variables")
                      ELSE IF \E i \in 1..Len(compact_data) : ~IsHexText(compact_data[i])
                      THEN ValueError("invalid literal for int() with base 16")
                      ELSE ValueTable(input_names, output_names,
                               [ i \in 1..Len(compact_data) |->
                                   from_string(Len(input_names), compact_data[i]) ])

\* separator.join(texts)
RECURSIVE JoinText(_, _)
JoinText(separator, texts) ==
    IF Len(texts) = 0 THEN << >>
    ELSE IF Len(texts) = 1 THEN texts[1]
    ELSE JoinText(separator, SubSeq(texts, 1, Len(texts) - 1))
             \o << separator >> \o texts[Len(texts)]

\* ValueTable._print_compact: the text it prints
print_compact(table) ==
    LET names == << ":" >> \o JoinText(",", table.input_variable_names)
                     \o << ":" >> \o JoinText(",", table.output_variable_names)
        blobs == [ i \in 1..Len(table.output_values) |-> to_string(table.output_values[i]) ]
    IN  JoinText(":", << names >> \o blobs)

\* CompactStorage.indices_with_value, ascending
indices_with_value(storage, search_value) ==
    LET Holds(index) == GetItem(storage, index) = search_value
    IN  SelectSeq([ i \in 1..table_entry_count(storage.variable_count) |-> i - 1 ], Holds)

\* _minterm of ValueTable._cdnf (lines 330-332)
CdnfMinterm(table, input_values) ==
    Join("And", [ i \in 1..input_variable_count(table) |->
                    IF input_values[table.input_variable_names[i]] # 0
                    THEN Invert(Variable(table.input_variable_names[i]))
                    ELSE Variable(table.input_variable_names[i]) ])

\* ValueTable._cdnf
cdnf_of(table, varname, search_value) ==
    LET indices == indices_with_value(table.named_outputs[varname], search_value)
        terms   == [ t \in 1..Len(indices) |->
                       CdnfMinterm(table, index_to_dict(table, indices[t])) ]
    IN  IF Len(terms) = 0 THEN Constant(0) ELSE Join("Or", terms)

\* ValueTable.cdnf
cdnf(table, varname) == cdnf_of(table, varname, High)

\* ValueTable.cdnf_dc
cdnf_dc(table, varname) == cdnf_of(table, varname, DontCare)

\* _maxterm of ValueTable.ccnf (lines 347-349)
CcnfMaxterm(table, input_values) ==
    Join("Or", [ i \in 1..input_variable_count(table) |->
                   IF input_values[table.input_variable_names[i]] # 0
                   THEN Variable(table.input_variable_names[i])
                   ELSE Invert(Variable(table.input_variable_names[i])) ])

\* ValueTable.ccnf
ccnf(table, varname) ==
    LET indices == indices_with_value(table.named_outputs[varname], Low)
        terms   == [ t \in 1..Len(indices) |->
                       CcnfMaxterm(table, index_to_dict(table, indices[t])) ]
    IN  IF Len(terms) = 0 THEN Constant(1) ELSE Join("And", terms)

-----------------------------------------------------------------------------
(* Expression enumeration and comparison (ExpressionParser.py:78-150) and  *)
(* ValueTable.create_from_expression (ValueTable.py:224-233).              *)

\* The order of sorted() on one-letter variable names
Letters == << "A", "B", "C", "D", "Y", "Z" >>

NameRank == [ varname \in { << Letters[i] >> : i \in 1..Len(Letters) } |->
                CHOOSE i \in 1..Len(Letters) : Letters[i] = varname[1] ]

\* ParseTreeElement.variables: the sorted tuple of the names of the Variable
\* nodes of the tree
expr_variables(expr) ==
    LET nodes == Traverse(expr)
    IN  SortedBy({ nodes[i].varname : i \in { j \in 1..Len(nodes) : nodes[j].kind = "Variable" } },
                 NameRank)

\* ParseTreeElement.state_count
state_count(expr) == Pow(2, Len(expr_variables(expr)))

\* The value_dict of ParseTreeElement.table for one value: the variable at
\* position varno (from 0) gets bit len(variables) - 1 - varno
expr_value_dict_Mirrored(expr, value) ==
    [ varname \in Range(expr_variables(expr)) |->
        Bit(value, (CHOOSE i \in 1..Len(expr_variables(expr)) : expr_variables(expr)[i] = varname) - 1) ]

expr_value_dict(expr, value) ==
    [ varname \in Range(expr_variables(expr)) |->
        Bit(value, Len(expr_variables(expr))
                   - (CHOOSE i \in 1..Len(expr_variables(expr)) : expr_variables(expr)[i] = varname)) ]

\* ParseTreeElement.table: the pairs (value_dict, evaluation) in the order of
\* value
expr_table(expr) ==
    [ row \in 1..state_count(expr) |->
        [ value_dict |-> expr_value_dict(expr, row - 1),
          evaluation |-> Evaluate(expr, expr_value_dict(expr, row - 1)) ] ]

\* The entry create_from_expression stores for one row
StoredOutput_IgnoreDc(row, dc_expression) == IntValue(row.evaluation)

StoredOutput(row, dc_expression) ==
    IF dc_expression.kind # "None" /\ Evaluate(dc_expression, row.value_dict) # 0
    THEN EntryValue(DontCare)
    ELSE IntValue(row.evaluation)

\* The index create_from_expression computes for one row from index_values
ExpressionIndex(expression, inputs) ==
    LET names == expr_variables(expression)
        index_values == [ varname \in Range(names) |->
                            Pow(2, Len(names) - (CHOOSE i \in 1..Len(names) : names[i] = varname)) ]
    IN  SumOver({ varname \in DOMAIN inputs : inputs[varname] = 1 }, index_values)

\* The loop of create_from_expression over the first n rows of table()
RECURSIVE FillStorage(_, _, _)
FillStorage(expression, dc_expression, n) ==
    IF n = 0 THEN UndefinedStorage(Len(expr_variables(expression)))
    ELSE LET row == expr_table(expression)[n]
         IN  SetItem(FillStorage(expression, dc_expression, n - 1),
                     ExpressionIndex(expression, row.value_dict),
                     StoredOutput(row, dc_expression))

\* ValueTable.create_from_expression; evaluating a don't-care expression
\* that names a variable the expression lacks raises KeyError
create_from_expression(output_variable_name, expression, dc_expression) ==
    IF /\ dc_expression.kind # "None"
       /\ ~(Range(expr_variables(dc_expression)) \subseteq Range(expr_variables(expression)))
    THEN [ kind |-> "KeyError" ]
    ELSE ValueTable(expr_variables(expression), << output_variable_name >>,
                    << FillStorage(expression, dc_expression, state_count(expression)) >>)

\* Whether compare_to_expression takes self as the dominant expression
SelfDominant(self, other) ==
    Range(expr_variables(self)) \cap Range(expr_variables(other)) = Range(expr_variables(other))

\* The test of compare_to_expression that raises ValueError
DifferentVariables_Unequal(e1_vars, e2_vars) == e1_vars # e2_vars

DifferentVariables(e1_vars, e2_vars) ==
    LET intersection == e1_vars \cap e2_vars
    IN  intersection # e1_vars /\ intersection # e2_vars

\* ParseTreeElement.compare_to_expression, iterated to its end
compare_to_expression(self, other) ==
    LET e1_vars == Range(expr_variables(self))
        e2_vars == Range(expr_variables(other))
        dominant_expr == IF SelfDominant(self, other) THEN self ELSE other
        subordinate_expr == IF SelfDominant(self, other) THEN other ELSE self
    IN  IF DifferentVariables(e1_vars, e2_vars)
        THEN ValueError("Cannot compare expressions with different variables.")
        ELSE [ kind |-> "rows",
               rows |-> [ row \in 1..state_count(dominant_expr) |->
                            [ value_dict |-> expr_table(dominant_expr)[row].value_dict,
                              eval1 |-> expr_table(dominant_expr)[row].evaluation,
                              eval2 |-> Evaluate(subordinate_expr,
                                                 expr_table(dominant_expr)[row].value_dict) ] ] ]

\* ParseTreeElement.__eq__
eq(self, other) ==
    LET compared == compare_to_expression(self, other)
    IN  IF IsError(compared) THEN compared
        ELSE [ kind |-> "bool",
               truth |-> \A row \in 1..Len(compared.rows) :
                            compared.rows[row].eval1 = compared.rows[row].eval2 ]

\* The rows of a comparison whose two values differ, in the order yielded
DivergingRows(compared) ==
    LET Differs(row) == row.eval1 # row.eval2
    IN  SelectSeq(compared.rows, Differs)

\* The line ActionEqual.run prints for a diverging row
NotEqualLine(row) ==
    [ line |-> "Not equal", value_dict |-> row.value_dict,
      lhs |-> row.eval1, rhs |-> row.eval2 ]

\* ActionEqual.run on two parsed expressions: the lines printed and the
\* value returned; the loop returns at the first diverging row.
ActionEqual_run_AllRows(expr1, expr2) ==
    LET compared == compare_to_expression(expr1, expr2)
    IN  IF IsError(compared) THEN compared
        ELSE IF DivergingRows(compared) = << >>
        THEN [ kind |-> "exit", status |-> 0,
               output |-> << [ line |-> "Expressions equal." ] >> ]
        ELSE [ kind |-> "exit", status |-> 1,
               output |-> [ n \in 1..Len(DivergingRows(compared)) |->
                              NotEqualLine(DivergingRows(compared)[n]) ] ]

ActionEqual_run(expr1, expr2) ==
    LET compared == compare_to_expression(expr1, expr2)
    IN  IF IsError(compared) THEN compared
        ELSE IF DivergingRows(compared) = << >>
        THEN [ kind |-> "exit", status |-> 0,
               output |-> << [ line |-> "Expressions equal." ] >> ]
        ELSE [ kind |-> "exit", status |-> 1,
               output |-> << NotEqualLine(DivergingRows(compared)[1]) >> ]

-----------------------------------------------------------------------------
(* Reading a table from text (ValueTable.py:71-74, 157-222).  A line is    *)
(* the sequence of its tokens, a header field a sequence of characters.    *)

\* The columns of the header line: names and token positions of the inputs
\* and of the fields that start with ">"
HeaderColumns(tokens) ==
    LET IsOutput(i) == Len(tokens[i]) > 0 /\ tokens[i][1] = ">"
        positions == [ i \in 1..Len(tokens) |-> i ]
        IsIn(i) == ~IsOutput(i)
        input_indices == SelectSeq(positions, IsIn)
        output_indices == SelectSeq(positions, IsOutput)
    IN  [ kind |-> "header",
          input_indices |-> input_indices,
          input_variables |-> [ n \in 1..Len(input_indices) |-> tokens[input_indices[n]] ],
          output_indices |-> output_indices,
          output_variables |-> [ n \in 1..Len(output_indices) |->
                                   SubSeq(tokens[output_indices[n]], 2,
                                          Len(tokens[output_indices[n]])) ] ]

\* The first line of _parse_from_file that is not a compact text
ParseHeaderLine(tokens) ==
    LET header == HeaderColumns(tokens)
        all_variables == header.input_variables \o header.output_variables
    IN  IF Len(header.input_variables) = 0
        THEN ValueError("No input variables found")
        ELSE IF Len(header.output_variables) = 0
        THEN ValueError("No output variables found")
        ELSE IF Len(all_variables) # Cardinality(Range(all_variables))
        THEN ValueError("Duplicate variable name(s) used")
        ELSE header

\* int(token) of an input token
IntTokens == { "0", "1", "2" }

TokenInt(token) == CASE token = "0" -> 0 [] token = "1" -> 1 [] token = "2" -> 2

\* The index of a row: sum(value << bitpos) over the reversed input bits
RowIndex(input_bits) ==
    SumOver(1..Len(input_bits),
            [ n \in 1..Len(input_bits) |-> input_bits[n] * Pow(2, Len(input_bits) - n) ])

\* storage[index] = output_bit of a row; a value already stored is
\* overwritten after a warning
StoreToken_KeepFirst(storage, index, token) ==
    IF SetItemAccepts(storage, index, StrValue(token)) /\ GetItem(storage, index) # Undefined
    THEN storage
    ELSE SetItem(storage, index, StrValue(token))

StoreToken(storage, index, token) == SetItem(storage, index, StrValue(token))

\* A later line of _parse_from_file: the storages after the row, or the
\* exception it raises
ParseRowLine(header, output_values, tokens) ==
    IF Len(tokens) # Len(header.input_variables) + Len(header.output_variables)
    THEN ValueError("expected a different number of tokens")
    ELSE IF \E n \in 1..Len(header.input_indices) : tokens[header.input_indices[n]] \notin IntTokens
    THEN ValueError("invalid literal for int() with base 10")
    ELSE LET input_bits == [ n \in 1..Len(header.input_indices) |->
                               TokenInt(tokens[header.input_indices[n]]) ]
             index == RowIndex(input_bits)
             stored == [ n \in 1..Len(output_values) |->
                           StoreToken(output_values[n], index,
                                      tokens[header.output_indices[n]]) ]
         IN  IF \E n \in 1..Len(stored) : IsStorageError(stored[n])
             THEN [ kind |-> "AssertionError" ]
             ELSE [ kind |-> "storages", index |-> index, output_values |-> stored ]

\* CompactStorage.set_undefined_values_to over the first n entries
RECURSIVE SetUndefinedUpTo(_, _, _)
SetUndefinedUpTo(storage, entry, n) ==
    IF n = 0 THEN storage
    ELSE LET before == SetUndefinedUpTo(storage, entry, n - 1)
         IN  IF GetItem(storage, n - 1) = Undefined
             THEN SetItem(before, n - 1, EntryValue(entry))
             ELSE before

\* CompactStorage.set_undefined_values_to
set_undefined_values_to_Every(storage, entry) ==
    CompactStorage(storage.variable_count,
                   SumOver(0..(table_entry_count(storage.variable_count) - 1),
                           [ index \in 0..(table_entry_count(storage.variable_count) - 1) |->
                               entry * Pow(4, index) ]))

set_undefined_values_to(storage, entry) ==
    SetUndefinedUpTo(storage, entry, table_entry_count(storage.variable_count))

\* The policies of parse_from_file and the entry each maps to
Policies == { "0", "1", "*", "forbidden" }

PolicyEntry(policy) ==
    CASE policy = "0" -> Low [] policy = "1" -> High [] policy = "*" -> DontCare

\* Which storage decides whether undefined values remain
UndefinedRemains(output_values) == has_undefined_values(output_values[1])

\* The end of _parse_from_file once every line is read, called by
\* parse_from_file with the policy
FinishParse(header, output_values, policy) ==
    IF header.kind # "header"
    THEN ValueError("Unable to read table data from source.")
    ELSE IF UndefinedRemains(output_values) /\ policy = "forbidden"
    THEN ValueError("Strict parsing was requested but not all input patterns were explicitly specified.")
    ELSE ValueTable(header.input_variables, header.output_variables,
                    IF UndefinedRemains(output_values)
                    THEN [ n \in 1..Len(output_values) |->
                             set_undefined_values_to(output_values[n], PolicyEntry(policy)) ]
                    ELSE output_values)

-----------------------------------------------------------------------------
(* QuineMcCluskey.Implicant (QuineMcCluskey.py:31-75).                     *)

Implicant(minterms, value, mask) ==
    [ minterms |-> minterms, value |-> value, mask |-> mask ]

\* Implicant.order
order(implicant) == BitLength(Cardinality(implicant.minterms)) - 1

\* Implicant.literal_count
literal_count(implicant, variable_count) == variable_count - order(implicant)

\* Mutant: the polarity of a literal is taken from the value bit and the
\* product-of-sums direction.
LiteralInverted_ValueXorCnf(value_bit, minterm) == (value_bit # 0) # (~minterm)

\* Line 58 of as_mterm: whether the literal of an unmasked bit is negated.
\* minterm is TRUE when a product term (DNF) is rendered.
LiteralInverted(value_bit, minterm) == (value_bit # 0) # minterm

\* Implicant.as_mterm
as_mterm(implicant, variables, minterm) ==
    LET n == Len(variables)
        Cared(i) == Bit(implicant.mask, n - i) = 0
        cared == SelectSeq([ i \in 1..n |-> i ], Cared)
        literals ==
            [ j \in 1..Len(cared) |->
                IF LiteralInverted(Bit(implicant.value, n - cared[j]), minterm)
                THEN Invert(variables[cared[j]])
                ELSE variables[cared[j]] ]
    IN  Join(IF minterm THEN "And" ELSE "Or", literals)

\* sorted(implicants) under Implicant.__lt__: descending order first; the
\* minterm sets of two implicants of one order are never proper subsets of
\* each other, so the sort leaves such ties in set order, here ascending
\* (value, mask).
SortedImplicants(implicants) ==
    SortedBy(implicants,
             [ i \in implicants |-> (64 - order(i)) * 65536 + i.value * 256 + i.mask ])

\* The order in which the model walks a list of implicants of one group.
ImplicantList(implicants) ==
    SortedBy(implicants, [ i \in implicants |-> i.value * 256 + i.mask ])

-----------------------------------------------------------------------------
(* QuineMcCluskey: merging (QuineMcCluskey.py:116-196).                    *)

MaxOf(S) == CHOOSE x \in S : \A y \in S : y <= x

\* _group_by_bitcount
group_by_bitcount(values) ==
    [ bit_count \in { BitCount(v) : v \in values } |->
        { v \in values : BitCount(v) = bit_count } ]

\* _create_size_one_implicants
create_size_one_implicants(grouped_minterms) ==
    [ bit_count \in DOMAIN grouped_minterms |->
        [ mask \in { 0 } |->
            { Implicant({ minterm }, minterm, 0) : minterm \in grouped_minterms[bit_count] } ] ]

\* Mutant: implicants merge only when their values do not differ.
Mergeable_NoDifference(implicant1, implicant2) ==
    BitCount(BitXor(implicant1.value, implicant2.value)) = 0

\* The merge condition of line 143 for a pair drawn from the same mask of
\* two neighbouring bit-count groups.
Mergeable(implicant1, implicant2) ==
    BitCount(BitXor(implicant1.value, implicant2.value)) = 1

\* Lines 142-148: the implicant merged from a pair
MergedImplicant(implicant1, implicant2) ==
    LET mask == BitXor(implicant1.value, implicant2.value)
    IN  Implicant(implicant1.minterms \cup implicant2.minterms,
                  BitAndNot(implicant1.value, mask),
                  BitOr(implicant1.mask, mask))

\* The body of _merge_implicants' loop for one bit_count: every merge of a
\* pair of equal mask, one implicant kept per merged minterm set
\* (found_merged).
MergedOfBitCount(grouped_implicants, bit_count) ==
    IF bit_count = MaxOf(DOMAIN grouped_implicants)
       \/ (bit_count + 1) \notin DOMAIN grouped_implicants
    THEN {}
    ELSE LET implicants_1_by_mask == grouped_implicants[bit_count]
             implicants_2_by_mask == grouped_implicants[bit_count + 1]
             merged ==
                 UNION { { MergedImplicant(pair[1], pair[2]) :
                             pair \in { q \in implicants_1_by_mask[mask_bits]
                                              \X implicants_2_by_mask[mask_bits] :
                                          Mergeable(q[1], q[2]) } } :
                         mask_bits \in DOMAIN implicants_1_by_mask
                                       \cap DOMAIN implicants_2_by_mask }
         IN  { CHOOSE i \in merged : i.minterms = minterms :
                 minterms \in { i.minterms : i \in merged } }

\* _merge_implicants
merge_implicants(grouped_implicants) ==
    LET merged == [ bit_count \in DOMAIN grouped_implicants |->
                      MergedOfBitCount(grouped_implicants, bit_count) ]
    IN  [ bit_count \in { b \in DOMAIN grouped_implicants : merged[b] # {} } |->
            [ mask \in { i.mask : i \in merged[bit_count] } |->
                { i \in merged[bit_count] : i.mask = mask } ] ]

\* _discard_mask_information
discard_mask_information(implicants) ==
    [ group \in DOMAIN implicants |->
        UNION { UNION { implicants[group][bit_count][mask] :
                          mask \in DOMAIN implicants[group][bit_count] } :
                  bit_count \in DOMAIN implicants[group] } ]

\* Line 186: the lower implicant lies wholly inside the upper one
IsSubgroupOf(lower_implicant, upper_implicant) ==
    (lower_implicant.minterms \cap upper_implicant.minterms) = lower_implicant.minterms

\* _eliminate_suboptimal_implicants
eliminate_suboptimal_implicants_TopGroupOnly(implicants) ==
    [ group \in { MaxOf(DOMAIN implicants) } |-> implicants[group] ]

eliminate_suboptimal_implicants(implicants) ==
    LET top_group == MaxOf(DOMAIN implicants)
        kept(lower_group_id) ==
            { lower_implicant \in implicants[lower_group_id] :
                ~ \E upper_implicant \in implicants[lower_group_id + 1] :
                      IsSubgroupOf(lower_implicant, upper_implicant) }
    IN  [ group \in { g \in 1..(top_group - 1) : kept(g) # {} } \cup { top_group } |->
            IF group = top_group THEN implicants[top_group] ELSE kept(group) ]

-----------------------------------------------------------------------------
(* QuineMcCluskey: essential implicants (QuineMcCluskey.py:198-231).       *)

AllOf(implicants) == UNION { implicants[group] : group \in DOMAIN implicants }

\* Mutant: a minterm counted at least once is taken as required.
determine_required_minterms_AnyCount(implicants, mandatory_minterms) ==
    { minterm \in mandatory_minterms :
        Cardinality({ i \in AllOf(implicants) : minterm \in i.minterms }) >= 1 }

\* Mutant: the DontCare minterms are counted as well.
determine_required_minterms_EveryMinterm(implicants, mandatory_minterms) ==
    { minterm \in UNION { i.minterms : i \in AllOf(implicants) } :
        Cardinality({ i \in AllOf(implicants) : minterm \in i.minterms }) = 1 }

\* _determine_required_minterms: the mandatory minterms counted exactly once
determine_required_minterms(implicants, mandatory_minterms) ==
    { minterm \in mandatory_minterms :
        Cardinality({ i \in AllOf(implicants) : minterm \in i.minterms }) = 1 }

\* Mutant: an implicant is taken only when it holds several required minterms.
IsRequired_MoreThanOne(implicant, required) ==
    Cardinality(required \cap implicant.minterms) > 1

\* Line 211: the implicant holds a required minterm
IsRequired(implicant, required) == (required \cap implicant.minterms) # {}

\* _eliminate_required_implicants: << required_implicants, result >>
eliminate_required_implicants(implicants, required) ==
    LET eliminated(group) ==
            { i \in implicants[group] : ~IsRequired(i, required) }
    IN  << { i \in AllOf(implicants) : IsRequired(i, required) },
           [ group \in { g \in DOMAIN implicants : eliminated(g) # {} } |->
               eliminated(group) ] >>

\* _compute_remaining_minterms
compute_remaining_minterms(minterms, required) ==
    minterms \ UNION { i.minterms : i \in required }

RECURSIVE ConcatGroups(_, _)
ConcatGroups(implicants, groups) ==
    IF groups = {} THEN << >>
    ELSE LET g == CHOOSE x \in groups : \A y \in groups : x <= y
         IN  ImplicantList(implicants[g]) \o ConcatGroups(implicants, groups \ { g })

\* _group_implicants_by_minterm, read at one minterm: the implicants holding
\* it, lower groups first (an absent key of the defaultdict reads as []).
implicants_fulfilling_minterm(implicants, minterm) ==
    LET Holds(i) == minterm \in i.minterms
    IN  SelectSeq(ConcatGroups(implicants, DOMAIN implicants), Holds)

-----------------------------------------------------------------------------
(* QuineMcCluskey: Petrick's method (QuineMcCluskey.py:253-327).  A term   *)
(* of the product is an int used as a bit set; the model holds it as the   *)
(* set of its set bit numbers, so a | b is the union, (a & b) == a is      *)
(* inclusion and bit_count() is the cardinality.                           *)

TermValue(term) == SumOver(term, [ bit \in term |-> Pow(2, bit) ])

\* The first occurrences of a sequence's elements, in order
RECURSIVE FirstOccurrences(_)
FirstOccurrences(seq) ==
    IF Len(seq) = 0 THEN << >>
    ELSE LET front == FirstOccurrences(SubSeq(seq, 1, Len(seq) - 1))
             last  == seq[Len(seq)]
         IN  IF last \in Range(front) THEN front ELSE Append(front, last)

RECURSIVE FulfillingOfAll(_, _)
FulfillingOfAll(implicants, minterms) ==
    IF minterms = {} THEN << >>
    ELSE LET m == CHOOSE x \in minterms : \A y \in minterms : x <= y
         IN  implicants_fulfilling_minterm(implicants, m)
             \o FulfillingOfAll(implicants, minterms \ { m })

\* Lines 286-291: the candidate implicants in the order they receive their
\* bits; the implicant at position p carries bit p - 1.
candidate_implicants(remaining, implicants) ==
    FirstOccurrences(FulfillingOfAll(implicants, remaining))

\* candidate_implicants[implicant], as a bit number
CandidateBit(candidates, implicant) ==
    (CHOOSE p \in 1..Len(candidates) : candidates[p] = implicant) - 1

\* inverse[1 << bit]
InverseBit(candidates, bit) == candidates[bit + 1]

\* Line 295
next_minterm_implicants(candidates, implicants, minterm) ==
    { { CandidateBit(candidates, i) } :
        i \in Range(implicants_fulfilling_minterm(implicants, minterm)) }

\* The loop of _absorb over the terms sorted by (bit_count, term): a term is
\* absorbed by a kept term of smaller bit count that it includes; the scan of
\* the kept terms stops at the first one of equal or larger bit count.
RECURSIVE AbsorbLoop(_, _)
AbsorbLoop(sorted_terms, kept_terms) ==
    IF Len(sorted_terms) = 0 THEN kept_terms
    ELSE LET term == Head(sorted_terms)
             absorbed ==
                 \E j \in 1..Len(kept_terms) :
                     /\ \A h \in 1..j : Cardinality(kept_terms[h]) < Cardinality(term)
                     /\ kept_terms[j] \subseteq term
         IN  AbsorbLoop(Tail(sorted_terms),
                        IF absorbed THEN kept_terms ELSE Append(kept_terms, term))

\* Mutant: no term is absorbed.
absorb_Nothing(terms) == terms

\* _absorb
absorb(terms) ==
    IF terms = {} THEN {}
    ELSE Range(AbsorbLoop(
             SortedBy(terms, [ t \in terms |-> Cardinality(t) * 65536 + TermValue(t) ]),
             << >>))

\* Mutant: greedy pruning, only the terms of fewest bits survive each round.
multiply_absorb_Greedy(solutions, clause) ==
    LET product == { a \cup b : a \in solutions, b \in clause }
    IN  { t \in product : \A u \in product : Cardinality(t) <= Cardinality(u) }

\* Lines 301-302: multiply by the next clause, then absorb
multiply_absorb(solutions, clause) ==
    absorb({ a \cup b : a \in solutions, b \in clause })

\* Mutant: a term that ties the fewest bits seen so far is not added.
filter_min_bit_count_NoTies(terms) ==
    IF terms = {} THEN {}
    ELSE { CHOOSE t \in terms : \A u \in terms : Cardinality(t) <= Cardinality(u) }

\* _filter_min_bit_count
filter_min_bit_count(terms) ==
    { t \in terms : \A u \in terms : Cardinality(t) <= Cardinality(u) }

\* Lines 313-316: the implicants of a solution candidate, lowest bit first
SolutionImplicants(candidates, solution_candidate) ==
    LET bits == SortedBy(solution_candidate, [ b \in solution_candidate |-> b ])
    IN  [ j \in 1..Len(bits) |-> InverseBit(candidates, bits[j]) ]

\* Line 317
SolutionLiteralCount(implicants, variable_count) ==
    LET positions == 1..Len(implicants)
    IN  SumOver(positions,
                [ j \in positions |-> literal_count(implicants[j], variable_count) ])

\* Lines 306-327: the solutions of fewest bits and, of those, of fewest
\* literals, in the order of the list of possible solutions.
select_minimal_solutions(candidates, solutions, variable_count) ==
    LET filtered == filter_min_bit_count(solutions)
        listed   == SortedBy(filtered, [ t \in filtered |-> TermValue(t) ])
        lists    == [ j \in 1..Len(listed) |-> SolutionImplicants(candidates, listed[j]) ]
        count(j) == SolutionLiteralCount(lists[j], variable_count)
        Minimal(l) == \A j \in 1..Len(lists) :
                         SolutionLiteralCount(l, variable_count) <= count(j)
    IN  SelectSeq(lists, Minimal)

-----------------------------------------------------------------------------
(* QuineMcCluskeySolution (QuineMcCluskey.py:78-101).                      *)

QuineMcCluskeySolution(mode, value_table, required, additional) ==
    [ kind |-> "QuineMcCluskeySolution", mode |-> mode, value_table |-> value_table,
      required_implicants |-> required, additional_implicants |-> additional ]

\* QuineMcCluskeySolution.solution_count
solution_count(solution) == Len(solution.additional_implicants)

\* The value of one round of QuineMcCluskeySolution.__iter__'s loop: the
\* joined expression, or the ValueError that join raised for a term or for
\* the whole.
SolutionExpression(solution, additional) ==
    LET names     == solution.value_table.input_variable_names
        variables == [ i \in 1..Len(names) |-> Variable(names[i]) ]
        implicants == SortedImplicants(solution.required_implicants \cup Range(additional))
        is_dnf    == solution.mode = "dnf"
        terms     == [ j \in 1..Len(implicants) |->
                         as_mterm(implicants[j], variables, is_dnf) ]
    IN  IF \E j \in 1..Len(terms) : IsError(terms[j])
        THEN terms[CHOOSE j \in 1..Len(terms) :
                      IsError(terms[j]) /\ \A h \in 1..(j - 1) : ~IsError(terms[h])]
        ELSE Join(IF is_dnf THEN "Or" ELSE "And", terms)

\* iter(x) of what all_solutions returned, read at position p (from 1):
\* a QuineMcCluskeySolution yields one expression per additional list, a
\* Constant yields the nodes of its traversal.
IterationLength(returned) ==
    IF returned.kind = "QuineMcCluskeySolution"
    THEN Len(returned.additional_implicants)
    ELSE Len(Traverse(returned))

IterationItem(returned, p) ==
    IF returned.kind = "QuineMcCluskeySolution"
    THEN SolutionExpression(returned, returned.additional_implicants[p])
    ELSE Traverse(returned)[p]

\* QuineMcCluskeySolution.any_solution, as optimize reads it (line 402)
any_solution(returned) ==
    IF returned.kind # "QuineMcCluskeySolution"
    THEN AttributeError("object has no attribute 'any_solution'")
    ELSE IterationItem(returned, 1)

-----------------------------------------------------------------------------
(* The minimizer as a state machine: QuineMcCluskey.all_solutions          *)
(* (QuineMcCluskey.py:344-398), optimize (400-402) and the iteration of    *)
(* the returned object, one action per stage of the pipeline.              *)

None == [ kind |-> "None" ]

Names == << << "A" >>, << "B" >>, << "C" >>, << "D" >> >>

\* self._varname
OutputName == << "Y" >>

\* The packed values of k input variables that hold no Undefined entry
ResolvedValues(k) ==
    { v \in 0..(Pow(4, Pow(2, k)) - 1) : ~has_undefined_values(CompactStorage(k, v)) }

\* The compact table of the first entry of _VALUE_TABLES (QMCTests.py:29)
ScenarioBText ==
    << ":", "A", ",", "B", ",", "C", ",", "D", ":", "Y", ":",
       "6", "1", "5", "9", "0", "1", "0", "0" >>

\* The compact table of test_qmc_pruning (QMCTests.py:56)
PruningText ==
    << ":", "A", ",", "B", ",", "C", ",", "D", ":", "Y", ":",
       "1", "5", "5", "1", "4", "4" >>

ScenarioTexts == { ScenarioBText, PruningText }

\* The tables of k inputs without Undefined entries
FullTables(k) ==
    { ValueTable(SubSeq(Names, 1, k), << OutputName >>, << CompactStorage(k, v) >>) :
        v \in ResolvedValues(k) }

\* The tables of the tests, read from their compact text
ScenarioTables == { from_compact_representation(text) : text \in ScenarioTexts }

StorageIdle ==
    /\ stor = None
    /\ stor_text = << >>
    /\ stor_back = None

\* No expression text is parsed, formatted or transformed
ExpressionIoIdle ==
    /\ expr_text = << >>
    /\ default_empty = None
    /\ expr_format = ""
    /\ implicit_and = TRUE
    /\ transformation_name = ""

TableIdle ==
    /\ cur_varname = << >>
    /\ cur_index = 0
    /\ cur_assignment = << >>
    /\ cur_compact = << >>
    /\ cur_expr = None
    /\ cur_other = None
    /\ cur_header = None
    /\ cur_lineno = 0
    /\ cur_outputs = << >>
    /\ last_token = << >>
    /\ compact_is_input = FALSE
    /\ cur_policy = ""
    /\ cur_row = << >>
    /\ ExpressionIoIdle

IoIdle ==
    /\ set_log = << >>
    /\ TableIdle

QmcInit ==
    /\ pc = "start"
    /\ \/ \E k \in 1..MaxVars : vt \in FullTables(k)
       \/ vt \in ScenarioTables
    /\ emit_dnf \in BOOLEAN
    /\ expr_minterms = {}
    /\ dc_minterms = {}
    /\ all_implicants = << >>
    /\ required_minterms = {}
    /\ required_implicants = {}
    /\ remaining_minterms = {}
    /\ pending_minterms = {}
    /\ possible_solutions = {}
    /\ qmc_solution = None
    /\ yielded = << >>
    /\ result = None
    /\ StorageIdle
    /\ IoIdle

\* Mutant: the CNF direction collects the High entries too.
TargetEntry_AlwaysHigh(dnf) == High

\* The entry all_solutions collects as mandatory (line 352)
TargetEntry(dnf) == IF dnf THEN High ELSE Low

\* Lines 347-360, and line 155 when the pipeline is entered
CollectMinterms ==
    /\ pc = "start"
    /\ LET outputs  == iter_output_variable(vt, OutputName).entries
           expr     == { index \in 0..(Len(outputs) - 1) :
                           outputs[index + 1] # DontCare
                           /\ outputs[index + 1] = TargetEntry(emit_dnf) }
           dc       == { index \in 0..(Len(outputs) - 1) : outputs[index + 1] = DontCare }
           size_one == create_size_one_implicants(group_by_bitcount(expr \cup dc))
       IN  /\ expr_minterms' = expr
           /\ dc_minterms' = dc
           /\ IF DOMAIN size_one = {}
              THEN /\ qmc_solution' = (IF emit_dnf THEN Constant(0) ELSE Constant(1))
                   /\ pc' = "returned"
                   /\ UNCHANGED all_implicants
              ELSE /\ all_implicants' = [ group \in { 1 } |-> size_one ]
                   /\ pc' = "merging"
                   /\ UNCHANGED qmc_solution
    /\ UNCHANGED << vt, emit_dnf, required_minterms, required_implicants,
                    remaining_minterms, pending_minterms, possible_solutions,
                    yielded, result, stor, stor_text, stor_back, io_vars >>

\* One round of the loop of _create_merged_implicant_groups (lines 158-165);
\* the round of index k - 1 is the last.
MergeRound ==
    /\ pc = "merging"
    /\ LET index  == Cardinality(DOMAIN all_implicants) - 1
           merged == merge_implicants(all_implicants[index + 1])
       IN  IF DOMAIN merged = {}
           THEN /\ pc' = "merged"
                /\ UNCHANGED all_implicants
           ELSE /\ all_implicants' =
                       [ group \in 1..(index + 2) |->
                           IF group = index + 2 THEN merged ELSE all_implicants[group] ]
                /\ pc' = IF index + 1 = input_variable_count(vt) THEN "merged" ELSE "merging"
    /\ UNCHANGED << vt, emit_dnf, expr_minterms, dc_minterms, required_minterms,
                    required_implicants, remaining_minterms, pending_minterms,
                    possible_solutions, qmc_solution, yielded, result,
                    stor, stor_text, stor_back, io_vars >>

\* Line 365
DiscardMaskInformation ==
    /\ pc = "merged"
    /\ all_implicants' = discard_mask_information(all_implicants)
    /\ pc' = "discarded"
    /\ UNCHANGED << vt, emit_dnf, expr_minterms, dc_minterms, required_minterms,
                    required_implicants, remaining_minterms, pending_minterms,
                    possible_solutions, qmc_solution, yielded, result,
                    stor, stor_text, stor_back, io_vars >>

\* Line 366
EliminateSuboptimal ==
    /\ pc = "discarded"
    /\ all_implicants' = eliminate_suboptimal_implicants(all_implicants)
    /\ pc' = "primes"
    /\ UNCHANGED << vt, emit_dnf, expr_minterms, dc_minterms, required_minterms,
                    required_implicants, remaining_minterms, pending_minterms,
                    possible_solutions, qmc_solution, yielded, result,
                    stor, stor_text, stor_back, io_vars >>

Mode(dnf) == IF dnf THEN "dnf" ELSE "cnf"

\* Lines 371-383, and lines 395-398 when no minterm remains
EssentialPass ==
    /\ pc = "primes"
    /\ LET required  == determine_required_minterms(all_implicants, expr_minterms)
           split     == eliminate_required_implicants(all_implicants, required)
           remaining == compute_remaining_minterms(expr_minterms, split[1])
       IN  /\ required_minterms' = required
           /\ required_implicants' = split[1]
           /\ all_implicants' = split[2]
           /\ remaining_minterms' = remaining
           /\ pending_minterms' = remaining
           /\ IF remaining # {}
              THEN /\ pc' = "petrick"
                   /\ UNCHANGED qmc_solution
              ELSE /\ pc' = "returned"
                   /\ qmc_solution' =
                          QuineMcCluskeySolution(Mode(emit_dnf), vt, split[1], << << >> >>)
    /\ UNCHANGED << vt, emit_dnf, expr_minterms, dc_minterms, possible_solutions,
                    yielded, result, stor, stor_text, stor_back, io_vars >>

\* One round of the multiplication loop (lines 294-302); possible_solutions
\* is None exactly before the first round.
PetrickMultiply ==
    /\ pc = "petrick"
    /\ pending_minterms # {}
    /\ LET minterm    == CHOOSE m \in pending_minterms : \A o \in pending_minterms : m <= o
           candidates == candidate_implicants(remaining_minterms, all_implicants)
           clause     == next_minterm_implicants(candidates, all_implicants, minterm)
       IN  /\ possible_solutions' =
                  IF pending_minterms = remaining_minterms
                  THEN clause
                  ELSE multiply_absorb(possible_solutions, clause)
           /\ pending_minterms' = pending_minterms \ { minterm }
    /\ UNCHANGED << pc, vt, emit_dnf, expr_minterms, dc_minterms, all_implicants,
                    required_minterms, required_implicants, remaining_minterms,
                    qmc_solution, yielded, result, stor, stor_text, stor_back, io_vars >>

\* Lines 306-327 and the return of line 398
PetrickSelect ==
    /\ pc = "petrick"
    /\ pending_minterms = {}
    /\ LET candidates == candidate_implicants(remaining_minterms, all_implicants)
           optimal    == select_minimal_solutions(candidates, possible_solutions,
                                                  input_variable_count(vt))
       IN  qmc_solution' =
               QuineMcCluskeySolution(Mode(emit_dnf), vt, required_implicants, optimal)
    /\ pc' = "returned"
    /\ UNCHANGED << vt, emit_dnf, expr_minterms, dc_minterms, all_implicants,
                    required_minterms, required_implicants, remaining_minterms,
                    pending_minterms, possible_solutions, yielded, result,
                    stor, stor_text, stor_back, io_vars >>

\* optimize, after its call of all_solutions returned (line 402)
Optimize ==
    /\ pc = "returned"
    /\ result' = any_solution(qmc_solution)
    /\ pc' = "optimized"
    /\ UNCHANGED << vt, emit_dnf, expr_minterms, dc_minterms, all_implicants,
                    required_minterms, required_implicants, remaining_minterms,
                    pending_minterms, possible_solutions, qmc_solution, yielded,
                    stor, stor_text, stor_back, io_vars >>

\* One step of a caller's loop over what all_solutions returned, as in
\* ActionSynthesize.run (ActionSynthesize.py:39-46): the next item, the
\* exception raised in its place, or the end of the iteration.
IterateSolutions ==
    /\ pc \in { "returned", "iterating" }
    /\ IF Len(yielded) = IterationLength(qmc_solution)
       THEN /\ pc' = "exhausted"
            /\ UNCHANGED yielded
       ELSE LET item == IterationItem(qmc_solution, Len(yielded) + 1)
            IN  /\ yielded' = Append(yielded, item)
                /\ pc' = IF IsError(item) THEN "raised" ELSE "iterating"
    /\ UNCHANGED << vt, emit_dnf, expr_minterms, dc_minterms, all_implicants,
                    required_minterms, required_implicants, remaining_minterms,
                    pending_minterms, possible_solutions, qmc_solution, result,
                    stor, stor_text, stor_back, io_vars >>

QmcNext ==
    \/ CollectMinterms
    \/ MergeRound
    \/ DiscardMaskInformation
    \/ EliminateSuboptimal
    \/ EssentialPass
    \/ PetrickMultiply
    \/ PetrickSelect
    \/ Optimize
    \/ IterateSolutions

Spec == QmcInit /\ [][QmcNext]_vars

-----------------------------------------------------------------------------
(* _absorb on its own (QuineMcCluskey.py:253-271), beside the minimizer    *)
(* that calls it.                                                          *)

\* The most implicant bits a set of terms given to _absorb uses
MaxBits == 3

\* A set of terms over the bits 0..MaxBits-1, held in possible_solutions
AbsorbInit ==
    /\ pc = "terms"
    /\ possible_solutions \in SUBSET (SUBSET (0..(MaxBits - 1)))
    /\ vt = None
    /\ emit_dnf = FALSE
    /\ expr_minterms = {}
    /\ dc_minterms = {}
    /\ all_implicants = << >>
    /\ required_minterms = {}
    /\ required_implicants = {}
    /\ remaining_minterms = {}
    /\ pending_minterms = {}
    /\ qmc_solution = None
    /\ yielded = << >>
    /\ result = None
    /\ StorageIdle
    /\ IoIdle

\* QuineMcCluskey._absorb(terms)
AbsorbTerms ==
    /\ pc = "terms"
    /\ result' = absorb(possible_solutions)
    /\ pc' = "absorbed"
    /\ UNCHANGED << vt, emit_dnf, expr_minterms, dc_minterms, all_implicants,
                    required_minterms, required_implicants, remaining_minterms,
                    pending_minterms, possible_solutions, qmc_solution, yielded,
                    stor, stor_text, stor_back, io_vars >>

PetrickInit == QmcInit \/ AbsorbInit

PetrickNext == QmcNext \/ AbsorbTerms

SpecPetrick == PetrickInit /\ [][PetrickNext]_vars

-----------------------------------------------------------------------------
(* Storage serialization as a state machine: a CompactStorage is written   *)
(* with to_string and read back with from_string (ValueTable.py:64-69).    *)

\* Every packed value of a storage of k variables, Undefined entries included
PackedValues(k) == 0..(Pow(4, Pow(2, k)) - 1)

QmcIdle ==
    /\ vt = None
    /\ emit_dnf = FALSE
    /\ expr_minterms = {}
    /\ dc_minterms = {}
    /\ all_implicants = << >>
    /\ required_minterms = {}
    /\ required_implicants = {}
    /\ remaining_minterms = {}
    /\ pending_minterms = {}
    /\ possible_solutions = {}
    /\ qmc_solution = None
    /\ yielded = << >>
    /\ result = None

StorageInit ==
    /\ pc = "stored"
    /\ \E k \in 0..MaxVars : \E v \in PackedValues(k) : stor = CompactStorage(k, v)
    /\ stor_text = << >>
    /\ stor_back = None
    /\ QmcIdle
    /\ IoIdle

qmc_vars == << vt, emit_dnf, expr_minterms, dc_minterms, all_implicants,
               required_minterms, required_implicants, remaining_minterms,
               pending_minterms, possible_solutions, qmc_solution, yielded, result >>

\* CompactStorage.to_string (line 69)
StorageToString ==
    /\ pc = "stored"
    /\ stor_text' = to_string(stor)
    /\ pc' = "written"
    /\ UNCHANGED << stor, stor_back, qmc_vars, io_vars >>

\* CompactStorage.from_string (line 66)
StorageFromString ==
    /\ pc = "written"
    /\ stor_back' = from_string(stor.variable_count, stor_text)
    /\ pc' = "read_back"
    /\ UNCHANGED << stor, stor_text, qmc_vars, io_vars >>

StorageNext ==
    \/ StorageToString
    \/ StorageFromString

SpecStorage == StorageInit /\ [][StorageNext]_vars

-----------------------------------------------------------------------------
(* CompactStorage.__setitem__ and __getitem__ on a freshly constructed     *)
(* storage (ValueTable.py:44-50, 85-99).                                   *)

\* The calls of __setitem__ a behaviour makes
MaxSets == 2

\* The values passed to __setitem__, the two plain ints 2 and 3 that the
\* assertion refuses among them
SetItemValues ==
    { EntryValue(e) : e \in Entry }
        \cup { IntValue(n) : n \in 0..3 }
        \cup { StrValue(c) : c \in { "0", "1", "*" } }

SetItemInit ==
    /\ pc = "fresh"
    /\ \E k \in 0..MaxVars : stor = UndefinedStorage(k)
    /\ stor_text = << >>
    /\ stor_back = None
    /\ set_log = << >>
    /\ TableIdle
    /\ QmcIdle

\* storage[index] = entryvalue; a call that raises leaves the storage as it
\* was and is seen in result.
StorageSetItem ==
    /\ pc \in { "fresh", "set", "refused" }
    /\ Len(set_log) < MaxSets
    /\ \E index \in (-1)..table_entry_count(stor.variable_count) :
       \E entryvalue \in SetItemValues :
           IF SetItemAccepts(stor, index, entryvalue)
           THEN /\ stor' = SetItem(stor, index, entryvalue)
                /\ set_log' = Append(set_log, [ index |-> index, entryvalue |-> entryvalue ])
                /\ result' = None
                /\ pc' = "set"
           ELSE /\ result' = SetItem(stor, index, entryvalue)
                /\ pc' = "refused"
                /\ UNCHANGED << stor, set_log >>
    /\ UNCHANGED << vt, emit_dnf, expr_minterms, dc_minterms, all_implicants,
                    required_minterms, required_implicants, remaining_minterms,
                    pending_minterms, possible_solutions, qmc_solution, yielded,
                    stor_text, stor_back, cur_varname, cur_index, cur_assignment,
                    cur_compact, cur_expr, cur_other, cur_header, cur_lineno,
                    cur_outputs, last_token, compact_is_input, cur_policy, cur_row,
                   expr_text, default_empty, expr_format, implicit_and,
                   transformation_name >>

SetItemNext == StorageSetItem

SpecSetItem == SetItemInit /\ [][SetItemNext]_vars

-----------------------------------------------------------------------------
(* Construction and reading of value tables: the index mapping, the        *)
(* canonical forms and the compact text (ValueTable.py:145-155, 235-246,   *)
(* 304-308, 328-354).  Each behaviour starts from one table or one text    *)
(* and applies operations to it.                                           *)

SecondOutputName == << "Z" >>

\* The tables of k inputs and two outputs without Undefined entries
TwoOutputTables(k) ==
    { ValueTable(SubSeq(Names, 1, k), << OutputName, SecondOutputName >>,
                 << CompactStorage(k, v), CompactStorage(k, w) >>) :
        v \in ResolvedValues(k), w \in ResolvedValues(k) }

\* The hex texts of the packed values of k variables and of the values that
\* need up to two more bits than 2^k entries hold
BlobTexts(k) == { FormatHex(v) : v \in 0..(4 * Pow(4, Pow(2, k)) - 1) }

NamesText(k) == JoinText(",", SubSeq(Names, 1, k))

\* Compact texts: one output with any blob; two outputs with one or two
\* blobs; one output with two blobs.
CompactTexts(k) ==
    { << ":" >> \o NamesText(k) \o << ":" >> \o OutputName \o << ":" >> \o blob :
        blob \in BlobTexts(k) }
    \cup
    { << ":" >> \o NamesText(k) \o << ":" >> \o outputs \o << ":" >> \o to_string(CompactStorage(k, v))
          \o tail :
        outputs \in { OutputName, OutputName \o << "," >> \o SecondOutputName },
        v \in ResolvedValues(k),
        tail \in { << >>, << ",", "1" >>, << ":", "1" >> } }

TableOpIdle ==
    /\ cur_varname = << >>
    /\ cur_index = 0
    /\ cur_assignment = << >>
    /\ cur_header = None
    /\ cur_lineno = 0
    /\ cur_outputs = << >>
    /\ last_token = << >>
    /\ cur_policy = ""
    /\ cur_row = << >>
    /\ set_log = << >>
    /\ StorageIdle
    /\ result = None
    /\ emit_dnf = FALSE
    /\ expr_minterms = {}
    /\ dc_minterms = {}
    /\ all_implicants = << >>
    /\ required_minterms = {}
    /\ required_implicants = {}
    /\ remaining_minterms = {}
    /\ pending_minterms = {}
    /\ possible_solutions = {}
    /\ qmc_solution = None
    /\ yielded = << >>

\* The operators of BinaryOperator.evaluate
BinaryOperators == { "Or", "And", "Xor", "Nand", "Nor" }

\* Variables, constants and their negations over the first k names
Operands(k) ==
    LET atoms == { Variable(Names[i]) : i \in 1..k } \cup { Constant(0), Constant(1) }
    IN  atoms \cup { Invert(atom) : atom \in atoms }

\* The expressions a behaviour starts from: operands, one operator applied
\* to two operands, and a parenthesised operation joined with an operand
Expressions(k) ==
    Operands(k)
    \cup { BinaryOperator(lhs, op, rhs) : lhs \in Operands(k), op \in BinaryOperators,
                                          rhs \in Operands(k) }
    \cup { BinaryOperator(Parenthesis(BinaryOperator(Variable(Names[1]), op1, Variable(Names[k]))),
                          op2, rhs) :
             op1 \in BinaryOperators, op2 \in { "And", "Xor" },
             rhs \in { Variable(Names[i]) : i \in 1..k } }

\* The second expressions: compared with the first, or its don't-care
\* expression
OtherExpressions(k) ==
    Operands(k)
    \cup { BinaryOperator(Variable(Names[1]), op, Variable(Names[k])) : op \in { "Or", "And" } }

\* A behaviour starts from a table, from a compact text, from an
\* expression with an optional second expression, or from a text file of
\* which no line is read yet
TablesInit ==
    /\ TableOpIdle
    /\ ExpressionIoIdle
    /\ \/ /\ pc = "table"
          /\ compact_is_input = FALSE
          /\ \/ \E k \in 1..MaxVars : vt \in FullTables(k)
             \/ \E k \in 1..(MaxVars - 1) : vt \in TwoOutputTables(k)
          /\ cur_compact = << >>
          /\ cur_expr = None
          /\ cur_other = None
       \/ /\ pc = "text"
          /\ compact_is_input = TRUE
          /\ vt = None
          /\ \E k \in 1..(MaxVars - 1) : cur_compact \in CompactTexts(k)
          /\ cur_expr = None
          /\ cur_other = None
       \/ /\ pc = "expression"
          /\ compact_is_input = FALSE
          /\ vt = None
          /\ cur_compact = << >>
          /\ \E k \in 1..MaxVars :
                /\ cur_expr \in Expressions(k)
                /\ cur_other \in OtherExpressions(k) \cup { None }
       \/ /\ pc = "file"
          /\ compact_is_input = FALSE
          /\ vt = None
          /\ cur_compact = << >>
          /\ cur_expr = None
          /\ cur_other = None

\* What the table operations leave alone
table_frame == << emit_dnf, expr_minterms, dc_minterms, all_implicants,
                 required_minterms, required_implicants, remaining_minterms,
                 pending_minterms, possible_solutions, qmc_solution, yielded,
                 stor, stor_text, stor_back, set_log, cur_expr, cur_other,
                 cur_header, cur_lineno, cur_outputs, last_token, compact_is_input,
                 cur_policy, cur_row, expr_text, default_empty, expr_format,
                 implicit_and, transformation_name >>

\* ValueTable.index_to_dict(index), on a table or on the index that
\* dict_to_index returned
IndexToDict ==
    /\ \/ /\ pc = "table"
          /\ \E i \in 0..(Pow(2, input_variable_count(vt)) - 1) :
                /\ cur_index' = i
                /\ cur_assignment' = index_to_dict(vt, i)
          /\ pc' = "assignment"
          /\ UNCHANGED result
       \/ /\ pc = "index"
          /\ result' = index_to_dict(vt, cur_index)
          /\ pc' = "assignment_back"
          /\ UNCHANGED << cur_index, cur_assignment >>
    /\ UNCHANGED << vt, cur_varname, cur_compact, table_frame >>

\* ValueTable.dict_to_index(input_var_dict), on a full assignment or on the
\* dict that index_to_dict returned
DictToIndex ==
    /\ \/ /\ pc = "table"
          /\ \E a \in [ Range(vt.input_variable_names) -> { 0, 1 } ] :
                /\ cur_assignment' = a
                /\ cur_index' = dict_to_index(vt, a)
          /\ pc' = "index"
          /\ UNCHANGED result
       \/ /\ pc = "assignment"
          /\ result' = dict_to_index(vt, cur_assignment)
          /\ pc' = "index_back"
          /\ UNCHANGED << cur_index, cur_assignment >>
    /\ UNCHANGED << vt, cur_varname, cur_compact, table_frame >>

\* ValueTable.at(input_var_dict, output_var_name)
At ==
    /\ pc = "assignment"
    /\ \E name \in Range(vt.output_variable_names) :
          /\ cur_varname' = name
          /\ result' = at(vt, cur_assignment, name)
    /\ pc' = "at"
    /\ UNCHANGED << vt, cur_index, cur_assignment, cur_compact, table_frame >>

\* ValueTable.cdnf(varname)
Cdnf ==
    /\ pc = "table"
    /\ \E name \in Range(vt.output_variable_names) :
          /\ cur_varname' = name
          /\ result' = cdnf(vt, name)
    /\ pc' = "cdnf"
    /\ UNCHANGED << vt, cur_index, cur_assignment, cur_compact, table_frame >>

\* ValueTable.ccnf(varname)
Ccnf ==
    /\ pc = "table"
    /\ \E name \in Range(vt.output_variable_names) :
          /\ cur_varname' = name
          /\ result' = ccnf(vt, name)
    /\ pc' = "ccnf"
    /\ UNCHANGED << vt, cur_index, cur_assignment, cur_compact, table_frame >>

\* ValueTable._print_compact
PrintCompact ==
    /\ pc = "table"
    /\ cur_compact' = print_compact(vt)
    /\ pc' = "printed"
    /\ UNCHANGED << vt, result, cur_varname, cur_index, cur_assignment, table_frame >>

\* ValueTable.from_compact_representation(compact_str)
FromCompact ==
    /\ pc \in { "printed", "text" }
    /\ result' = from_compact_representation(cur_compact)
    /\ pc' = "parsed"
    /\ UNCHANGED << vt, cur_varname, cur_index, cur_assignment, cur_compact, table_frame >>

\* ValueTable.create_from_expression(OutputName, expression, dc_expression)
CreateFromExpression ==
    /\ pc = "expression"
    /\ vt' = create_from_expression(OutputName, cur_expr, cur_other)
    /\ pc' = "created"
    /\ UNCHANGED << result, cur_varname, cur_index, cur_assignment, cur_compact, table_frame >>

\* ParseTreeElement.table(), iterated to its end
ExprTable ==
    /\ pc = "expression"
    /\ result' = [ kind |-> "rows", rows |-> expr_table(cur_expr) ]
    /\ pc' = "enumerated"
    /\ UNCHANGED << vt, cur_varname, cur_index, cur_assignment, cur_compact, table_frame >>

\* ParseTreeElement.compare_to_expression(other), iterated to its end
Compare ==
    /\ pc = "expression"
    /\ cur_other # None
    /\ result' = compare_to_expression(cur_expr, cur_other)
    /\ pc' = "compared"
    /\ UNCHANGED << vt, cur_varname, cur_index, cur_assignment, cur_compact, table_frame >>

\* ParseTreeElement.__eq__(other)
Eq ==
    /\ pc = "expression"
    /\ cur_other # None
    /\ result' = eq(cur_expr, cur_other)
    /\ pc' = "eq"
    /\ UNCHANGED << vt, cur_varname, cur_index, cur_assignment, cur_compact, table_frame >>

\* The most lines after the header that a text file has
MaxRows == 2

\* Header lines: the first k names and one or two fields marked as outputs,
\* the output first, and lines without inputs, without outputs and with a
\* name used twice
HeaderLines(k) ==
    LET inputs == SubSeq(Names, 1, k)
        Y == << ">" >> \o OutputName
        Z == << ">" >> \o SecondOutputName
    IN  { inputs \o << Y >> }
        \cup (IF k < MaxVars THEN { << Y >> \o inputs, inputs \o << Y, Z >> } ELSE {})
        \cup (IF k = 1
              THEN { << Y >>, inputs, inputs \o inputs \o << Y >>,
                     inputs \o << << ">" >> \o Names[1] >> }
              ELSE {})

\* The tokens of well-formed rows, and tokens no column admits or that are
\* no bit
InputTokens == { "0", "1" }

OutputTokens == { "0", "1", "*" }

BadTokens == { "2", "x" }

\* The tokens of a row with the given input and output tokens in the
\* columns of the header
RowTokens(header, input_tokens, output_tokens) ==
    [ p \in 1..(Len(header.input_indices) + Len(header.output_indices)) |->
        IF \E n \in 1..Len(header.input_indices) : header.input_indices[n] = p
        THEN input_tokens[CHOOSE n \in 1..Len(header.input_indices) : header.input_indices[n] = p]
        ELSE output_tokens[CHOOSE n \in 1..Len(header.output_indices) : header.output_indices[n] = p] ]

\* Malformed rows: a token too few or too many, and a bad token in one
\* column of a row of zeros
MalformedRows(header) ==
    LET columns == Len(header.input_indices) + Len(header.output_indices)
    IN  { [ p \in 1..(columns + extra) |-> "0" ] : extra \in { -1, 1 } }
        \cup { [ p \in 1..columns |-> IF p = bad_column THEN bad ELSE "0" ] :
                 bad_column \in 1..columns, bad \in BadTokens }

\* What the steps of reading a file leave alone
file_frame == << emit_dnf, expr_minterms, dc_minterms, all_implicants,
                required_minterms, required_implicants, remaining_minterms,
                pending_minterms, possible_solutions, qmc_solution, yielded,
                stor, stor_text, stor_back, set_log, cur_expr, cur_other,
                cur_varname, cur_assignment, vt, expr_text, default_empty,
                expr_format, implicit_and, transformation_name >>

\* _parse_from_file on line 1: a compact text is handed to
\* from_compact_representation, any other line is read as the header
ParseHeader ==
    /\ pc = "file"
    /\ \/ \E text \in CompactTexts(1) :
             /\ cur_compact' = text
             /\ compact_is_input' = TRUE
             /\ result' = from_compact_representation(text)
             /\ pc' = "parsed"
             /\ UNCHANGED << cur_header, cur_lineno, cur_outputs, last_token >>
       \/ \E k \in 1..MaxVars : \E tokens \in HeaderLines(k) :
             /\ IF IsError(ParseHeaderLine(tokens))
                THEN /\ result' = ParseHeaderLine(tokens)
                     /\ pc' = "rejected"
                     /\ UNCHANGED << cur_header, cur_outputs, last_token >>
                ELSE /\ cur_header' = ParseHeaderLine(tokens)
                     /\ cur_outputs' = [ n \in 1..Len(cur_header'.output_variables) |->
                                           UndefinedStorage(Len(cur_header'.input_variables)) ]
                     /\ last_token' = [ index \in 0..(Pow(2, Len(cur_header'.input_variables)) - 1)
                                          |-> << >> ]
                     /\ pc' = "rows"
                     /\ UNCHANGED result
             /\ cur_lineno' = 1
             /\ UNCHANGED << cur_compact, compact_is_input >>
    /\ UNCHANGED << cur_policy, cur_row, cur_index, file_frame >>

\* _parse_from_file on a later line; an exception discards the storages
ParseRow ==
    /\ pc = "rows"
    /\ cur_lineno <= MaxRows
    /\ \E tokens \in
          { RowTokens(cur_header, input_tokens, output_tokens) :
              input_tokens \in [ 1..Len(cur_header.input_indices) -> InputTokens ],
              output_tokens \in [ 1..Len(cur_header.output_indices) -> OutputTokens ] }
          \cup MalformedRows(cur_header) :
          LET parsed == ParseRowLine(cur_header, cur_outputs, tokens)
          IN  /\ cur_row' = tokens
              /\ IF IsError(parsed)
                 THEN /\ result' = parsed
                      /\ pc' = "rejected"
                      /\ cur_outputs' = << >>
                      /\ last_token' = << >>
                      /\ UNCHANGED cur_index
                 ELSE /\ cur_outputs' = parsed.output_values
                      /\ cur_index' = parsed.index
                      /\ last_token' = [ last_token EXCEPT ![parsed.index] =
                                           [ n \in 1..Len(cur_header.output_indices) |->
                                               tokens[cur_header.output_indices[n]] ] ]
                      /\ pc' = "rows"
                      /\ UNCHANGED result
    /\ cur_lineno' = cur_lineno + 1
    /\ UNCHANGED << cur_header, cur_compact, compact_is_input, cur_policy, file_frame >>

\* The end of the file: parse_from_file(f, policy) returns the table or
\* raises; cur_outputs keeps the storages as the rows left them
FinishFile ==
    /\ pc \in { "file", "rows" }
    /\ \E policy \in Policies :
          /\ cur_policy' = policy
          /\ result' = FinishParse(cur_header, cur_outputs, policy)
    /\ pc' = "finished"
    /\ UNCHANGED << cur_header, cur_lineno, cur_outputs, last_token, cur_compact,
                    compact_is_input, cur_row, cur_index, file_frame >>

\* ActionEqual.run on the two expressions
EqualRun ==
    /\ pc = "expression"
    /\ cur_other # None
    /\ result' = ActionEqual_run(cur_expr, cur_other)
    /\ pc' = "equal_run"
    /\ UNCHANGED << vt, cur_varname, cur_index, cur_assignment, cur_compact, table_frame >>

TablesNext ==
    \/ IndexToDict
    \/ DictToIndex
    \/ At
    \/ Cdnf
    \/ Ccnf
    \/ PrintCompact
    \/ FromCompact
    \/ CreateFromExpression
    \/ ExprTable
    \/ Compare
    \/ Eq
    \/ EqualRun
    \/ ParseHeader
    \/ ParseRow
    \/ FinishFile

SpecTables == TablesInit /\ [][TablesNext]_vars

-----------------------------------------------------------------------------
(* Properties of the minimizer.                                            *)

\* The table's entry at an index, read through at() on the index's assignment
EntryAt(table, index) == at(table, index_to_dict(table, index), OutputName)

Indices(table) == 0..(Pow(2, input_variable_count(table)) - 1)

\* expr agrees with the table at every assignment whose entry is not DontCare
Satisfies(table, expr) ==
    \A index \in Indices(table) :
        LET assignment == index_to_dict(table, index)
            entry == at(table, assignment, OutputName)
        IN  entry = DontCare \/ Evaluate(expr, assignment) = entry

\* The expression the last step handed to its caller: what optimize returned,
\* or the item the iteration yielded last (every earlier item was the last
\* one in an earlier state).
Delivered ==
    IF pc = "optimized" /\ ~IsError(result) THEN { result }
    ELSE IF pc = "iterating" THEN { yielded[Len(yielded)] }
    ELSE {}

\* C1: every expression returned by optimize, and every expression yielded by
\* iterating all_solutions, evaluates at each assignment whose table entry is
\* not DontCare to that entry, in both directions.
C1_Correctness == \A expr \in Delivered : Satisfies(vt, expr)

\* C1 witness: optimize returned a product of sums for a table with DontCare
\* entries whose prime implicant chart needed Petrick's method.
C1_Witness ==
    /\ pc = "optimized"
    /\ ~IsError(result)
    /\ ~emit_dnf
    /\ dc_minterms # {}
    /\ remaining_minterms # {}
    /\ result.kind = "BinaryOperator"

\* The indices a cover must hold: the entries of the direction's target value
Mandatory(table, dnf) ==
    { index \in Indices(table) : EntryAt(table, index) = (IF dnf THEN High ELSE Low) }

\* The indices a term may hold: target value or DontCare
Allowed(table, dnf) ==
    { index \in Indices(table) :
        EntryAt(table, index) \in { (IF dnf THEN High ELSE Low), DontCare } }

\* Every cube of k inputs as [ cells, literals ]: the positions of variables
\* split into fixed and free, the fixed ones given values.
Cubes(k) ==
    { [ cells |-> { index \in 0..(Pow(2, k) - 1) :
                      \A b \in pair[1] : Bit(index, b) = Bit(pair[2], b) },
        literals |-> Cardinality(pair[1]) ] :
        pair \in { q \in (SUBSET (0..(k - 1))) \X (0..(Pow(2, k) - 1)) :
                     \A b \in 0..(k - 1) : b \notin q[1] => Bit(q[2], b) = 0 } }

CubesOf == [ k \in DOMAIN Names |-> Cubes(k) ]

\* The terms usable in a cover of the table: cubes lying inside Allowed
UsableCubes(table, dnf) ==
    LET allowed == Allowed(table, dnf)
    IN  { cube \in CubesOf[input_variable_count(table)] : cube.cells \subseteq allowed }

Unreachable == Pow(2, 20)

MinOf(S) == CHOOSE x \in S : \A y \in S : x <= y

\* The fewest literals of any set of at most n usable cubes holding every
\* index of uncovered, by exhaustive search on the cubes that hold its
\* smallest index; Unreachable when there is no such set.
RECURSIVE FewestLiterals(_, _, _)
FewestLiterals(cubes, uncovered, n) ==
    IF uncovered = {} THEN 0
    ELSE IF n = 0 THEN Unreachable
    ELSE LET m == MinOf(uncovered)
             options == { cube.literals + FewestLiterals(cubes, uncovered \ cube.cells, n - 1) :
                            cube \in { c \in cubes : m \in c.cells } }
             reachable == { o \in options : o < Unreachable }
         IN  IF reachable = {} THEN Unreachable ELSE MinOf(reachable)

\* The terms of a delivered expression and the literals of one term
TermsOf(expr, dnf) ==
    IF expr.kind = "Constant" THEN << >>
    ELSE FindTerms(expr, IF dnf THEN "Or" ELSE "And")

LiteralsOf(term, dnf) == FindTerms(term, IF dnf THEN "And" ELSE "Or")

TotalLiterals(expr, dnf) ==
    LET terms == TermsOf(expr, dnf)
    IN  SumOver(1..Len(terms), [ j \in 1..Len(terms) |-> Len(LiteralsOf(terms[j], dnf)) ])

\* C2: no set of product terms (DNF) or sum terms (CNF) that agrees with every
\* non-DontCare entry has fewer terms than a delivered solution, nor as many
\* terms and fewer literals in total.
C2_Minimality ==
    \A expr \in Delivered :
        LET cubes == UsableCubes(vt, emit_dnf)
            mandatory == Mandatory(vt, emit_dnf)
            terms == Len(TermsOf(expr, emit_dnf))
        IN  /\ terms > 0 => FewestLiterals(cubes, mandatory, terms - 1) = Unreachable
            /\ FewestLiterals(cubes, mandatory, terms) >= TotalLiterals(expr, emit_dnf)

\* C2 witness: optimize returned a four-term sum of products for the table of
\* test_qmc_pruning, where Petrick's method multiplied several clauses.
C2_Witness ==
    /\ pc = "optimized"
    /\ emit_dnf
    /\ vt.output_values[1].value = 1397060
    /\ ~IsError(result)
    /\ Len(TermsOf(result, emit_dnf)) = 4
    /\ Cardinality(remaining_minterms) >= 2

Returned == pc \in { "returned", "optimized", "iterating", "exhausted", "raised" }

ReturnedSolution == Returned /\ qmc_solution.kind = "QuineMcCluskeySolution"

\* C3 (as claimed): for every structurally valid table and both directions,
\* optimize and the iteration of all_solutions complete without raising.
C3_Totality ==
    /\ pc # "raised"
    /\ pc = "optimized" => ~IsError(result)

\* C4 (as claimed): when no index holds the direction's target value, however
\* many DontCare entries there are, all_solutions returns Constant(0) for DNF
\* and Constant(1) for CNF, and optimize delivers the same constant.
C4_EmptyMandatory ==
    (Returned /\ Mandatory(vt, emit_dnf) = {}) =>
        /\ qmc_solution = Constant(IF emit_dnf THEN 0 ELSE 1)
        /\ pc = "optimized" => result = Constant(IF emit_dnf THEN 0 ELSE 1)

\* The prime implicants that survived merging and elimination, once the
\* essential pass has split them
Survivors == required_implicants \cup AllOf(all_implicants)

\* The only surviving implicant holding some mandatory minterm
IsEssential(implicant) ==
    \E minterm \in Mandatory(vt, emit_dnf) \cap implicant.minterms :
        \A other \in Survivors : minterm \in other.minterms => other = implicant

\* The literals of the term of an implicant, by position: the variable of each
\* unmasked bit, negated when its value bit equals negated_bit.
ExpectedLiterals(implicant, names, negated_bit) ==
    LET n == Len(names)
        Unmasked(i) == Bit(implicant.mask, n - i) = 0
        unmasked == SelectSeq([ i \in 1..n |-> i ], Unmasked)
    IN  [ j \in 1..Len(unmasked) |->
            IF Bit(implicant.value, n - unmasked[j]) = negated_bit
            THEN [ kind |-> "UnaryOperator", op |-> "Not",
                   rhs |-> [ kind |-> "Variable", varname |-> names[unmasked[j]] ] ]
            ELSE [ kind |-> "Variable", varname |-> names[unmasked[j]] ] ]

\* The terms of an expression, each as the sequence of its literals
TermLiterals(expr, dnf) ==
    { LiteralsOf(term, dnf) : term \in Range(TermsOf(expr, dnf)) }

\* C5: the required implicants are exactly the survivors that alone hold some
\* mandatory minterm; each of them is a term of every expression yielded; the
\* minterms handed to Petrick's method are exactly the mandatory minterms that
\* no essential implicant holds.
C5_EssentialInclusion ==
    /\ (pc = "petrick" \/ ReturnedSolution) =>
          required_implicants = { i \in Survivors : IsEssential(i) }
    /\ pc = "petrick" =>
          /\ remaining_minterms # {}
          /\ remaining_minterms =
                 { m \in Mandatory(vt, emit_dnf) :
                     \A i \in Survivors : IsEssential(i) => m \notin i.minterms }
    /\ (ReturnedSolution /\ pc = "iterating") =>
          \A i \in { s \in Survivors : IsEssential(s) } :
              ExpectedLiterals(i, vt.input_variable_names, IF emit_dnf THEN 0 ELSE 1)
                  \in TermLiterals(yielded[Len(yielded)], emit_dnf)

\* C5 witness: a second solution was yielded for a chart with essential
\* implicants and minterms left for Petrick's method.
C5_Witness ==
    /\ pc = "iterating"
    /\ ReturnedSolution
    /\ Len(yielded) = 2
    /\ required_implicants # {}
    /\ remaining_minterms # {}

\* The prime implicants of the table by definition: the usable cubes that lie
\* in no larger usable cube
PrimeCubes(table, dnf) ==
    LET usable == UsableCubes(table, dnf)
    IN  { cube \in usable :
            ~ \E larger \in usable :
                  cube.cells \subseteq larger.cells /\ cube.cells # larger.cells }

\* The covers of the mandatory minterms by prime implicants that have the
\* fewest implicants and, among those, the fewest literals
BestCovers(table, dnf) ==
    LET primes    == PrimeCubes(table, dnf)
        mandatory == Mandatory(table, dnf)
        covers    == { S \in SUBSET primes : mandatory \subseteq UNION { c.cells : c \in S } }
        fewest    == { S \in covers : \A T \in covers : Cardinality(S) <= Cardinality(T) }
        literals(S) == SumOver(S, [ c \in S |-> c.literals ])
    IN  { S \in fewest : \A T \in fewest : literals(S) <= literals(T) }

\* The implicants of the solution at position j of the returned object
SolutionSet(solution, j) ==
    solution.required_implicants \cup Range(solution.additional_implicants[j])

\* C6: the solutions all_solutions returns are exactly the covers by prime
\* implicants of fewest implicants and then fewest literals; they agree in
\* both counts, differ pairwise as sets, and solution_count is their number.
C6_AllTiedSolutions ==
    (pc = "returned" /\ qmc_solution.kind = "QuineMcCluskeySolution") =>
        LET best  == BestCovers(vt, emit_dnf)
            count == solution_count(qmc_solution)
            k     == input_variable_count(vt)
            cells(j) == { i.minterms : i \in SolutionSet(qmc_solution, j) }
            literals(j) ==
                SumOver(SolutionSet(qmc_solution, j),
                        [ i \in SolutionSet(qmc_solution, j) |-> literal_count(i, k) ])
        IN  /\ { cells(j) : j \in 1..count } = { { c.cells : c \in S } : S \in best }
            /\ count = Cardinality(best)
            /\ \A j, h \in 1..count :
                  /\ j # h => SolutionSet(qmc_solution, j) # SolutionSet(qmc_solution, h)
                  /\ Cardinality(SolutionSet(qmc_solution, j))
                         = Cardinality(SolutionSet(qmc_solution, h))
                  /\ literals(j) = literals(h)

\* C6 witness: all_solutions returned two tied solutions that share essential
\* implicants.
C6_Witness ==
    /\ pc = "returned"
    /\ qmc_solution.kind = "QuineMcCluskeySolution"
    /\ solution_count(qmc_solution) = 2
    /\ required_implicants # {}

\* The table of the first entry of _VALUE_TABLES in the tests
ScenarioB == from_compact_representation(ScenarioBText)

\* The indices of a table whose entry is High
HighIndices(table) == { index \in Indices(table) : EntryAt(table, index) = High }

\* An expression of n terms that is 1 on every High index of the table
CoversHighWith(table, expr, n) ==
    /\ Len(TermsOf(expr, TRUE)) = n
    /\ \A index \in HighIndices(table) :
           Evaluate(expr, index_to_dict(table, index)) = 1

\* C7 (as claimed): DNF minimization of :A,B,C,D:Y:61590100 yields exactly
\* 4 implicants that together cover all High minterms.
C7_FourImplicants ==
    (vt = ScenarioB /\ emit_dnf) =>
        /\ pc = "optimized" => ~IsError(result) /\ CoversHighWith(vt, result, 4)
        /\ pc = "iterating" => CoversHighWith(vt, yielded[Len(yielded)], 4)
        /\ pc = "returned" =>
              \A j \in 1..solution_count(qmc_solution) :
                  Cardinality(SolutionSet(qmc_solution, j)) = 4

\* C7 (amended): DNF minimization of :A,B,C,D:Y:61590100 yields exactly
\* 3 implicants that together cover all High minterms, in the expression
\* optimize returns and in each expression the iteration yields.
C7_ThreeImplicants ==
    (vt = ScenarioB /\ emit_dnf) =>
        /\ pc = "optimized" => ~IsError(result) /\ CoversHighWith(vt, result, 3)
        /\ pc = "iterating" => CoversHighWith(vt, yielded[Len(yielded)], 3)
        /\ pc = "returned" =>
              \A j \in 1..solution_count(qmc_solution) :
                  /\ Cardinality(SolutionSet(qmc_solution, j)) = 3
                  /\ HighIndices(vt) \subseteq
                         UNION { i.minterms : i \in SolutionSet(qmc_solution, j) }

\* C7 witness: optimize returned an expression for the table in DNF.
C7_Witness ==
    /\ vt = ScenarioB
    /\ emit_dnf
    /\ pc = "optimized"
    /\ ~IsError(result)
    /\ HighIndices(vt) = { 4, 8, 10, 11, 12, 15 }

\* A table with one High entry at h, one DontCare entry at d one bit away,
\* and Low everywhere else
IsScenarioC(table, h, d) ==
    /\ h \in Indices(table)
    /\ d \in Indices(table)
    /\ BitCount(BitXor(h, d)) = 1
    /\ \A index \in Indices(table) :
           EntryAt(table, index) = IF index = h THEN High
                                   ELSE IF index = d THEN DontCare ELSE Low

\* A table with one High entry at h and Low everywhere else
IsSingleHigh(table, h) ==
    \A index \in Indices(table) :
        EntryAt(table, index) = IF index = h THEN High ELSE Low

\* The returned solution is one implicant of the given minterms and literals
IsSingleImplicant(solution, minterms, literals) ==
    /\ solution.kind = "QuineMcCluskeySolution"
    /\ solution_count(solution) = 1
    /\ \E i \in SolutionSet(solution, 1) :
           /\ SolutionSet(solution, 1) = { i }
           /\ i.minterms = minterms
           /\ literal_count(i, input_variable_count(solution.value_table)) = literals

\* The fewest terms of any cover of uncovered by the cubes
FewestTerms(cubes, uncovered) ==
    MinOf({ n \in 0..Cardinality(uncovered) :
              FewestLiterals(cubes, uncovered, n) < Unreachable })

\* C8: for a table with a single High minterm h and a DontCare d at Hamming
\* distance 1, all_solutions (DNF) returns one implicant that holds {h, d} and
\* has k - 1 literals, where the table with Low in place of the DontCare
\* gives one implicant of k literals; and no table obtained by replacing
\* DontCare entries by the non-target value has a cover of fewer terms, or a
\* fewest-term cover of fewer literals, than the solution returned.
C8_DontCareEnlarges ==
    pc = "returned" =>
        LET k == input_variable_count(vt)
        IN  /\ \A h, d \in Indices(vt) :
                   (emit_dnf /\ IsScenarioC(vt, h, d)) =>
                       IsSingleImplicant(qmc_solution, { h, d }, k - 1)
            /\ \A h \in Indices(vt) :
                   (emit_dnf /\ IsSingleHigh(vt, h)) =>
                       IsSingleImplicant(qmc_solution, { h }, k)
            /\ qmc_solution.kind = "QuineMcCluskeySolution" =>
                   LET mandatory == Mandatory(vt, emit_dnf)
                       chosen    == SolutionSet(qmc_solution, 1)
                       literals  == SumOver(chosen, [ i \in chosen |-> literal_count(i, k) ])
                   IN  \A kept \in SUBSET (Allowed(vt, emit_dnf) \ mandatory) :
                           LET cubes == { c \in CubesOf[k] : c.cells \subseteq mandatory \cup kept }
                           IN  /\ FewestTerms(cubes, mandatory) >= Cardinality(chosen)
                               /\ FewestLiterals(cubes, mandatory, FewestTerms(cubes, mandatory))
                                      >= literals

\* C8 witness: all_solutions returned for a two-input table of Scenario C.
C8_Witness ==
    /\ pc = "returned"
    /\ emit_dnf
    /\ input_variable_count(vt) = 2
    /\ \E h, d \in Indices(vt) : IsScenarioC(vt, h, d)
    /\ qmc_solution.kind = "QuineMcCluskeySolution"

\* The implicants whose terms make up the expression yielded last
YieldedImplicants == SolutionSet(qmc_solution, Len(yielded))

\* The structure of a rendered expression: the literal sequences of its
\* terms are those of the implicants, and it is the join of its terms.
RendersAs(expr, implicants, names, dnf, negated_bit) ==
    LET inner == IF dnf THEN "And" ELSE "Or"
        outer == IF dnf THEN "Or" ELSE "And"
        terms == TermsOf(expr, dnf)
    IN  /\ TermLiterals(expr, dnf)
               = { ExpectedLiterals(i, names, negated_bit) : i \in implicants }
        /\ Len(terms) = Cardinality(implicants)
        /\ \A t \in 1..Len(terms) : terms[t] = Join(inner, LiteralsOf(terms[t], dnf))
        /\ expr = Join(outer, terms)

\* C9 (as claimed): in a rendered term the variable of an unmasked position
\* is negated exactly when (value bit) XOR (CNF) is true: DNF negates the
\* variables with value bit 1 and CNF those with value bit 0.
C9_PolarityAsStated ==
    (pc = "iterating" /\ ReturnedSolution) =>
        RendersAs(yielded[Len(yielded)], YieldedImplicants, vt.input_variable_names,
                  emit_dnf, IF emit_dnf THEN 1 ELSE 0)

\* C9 (amended): in a rendered term the variable of an unmasked position is
\* negated exactly when (value bit) XOR (DNF) is true: DNF negates the
\* variables with value bit 0 and CNF those with value bit 1. Masked
\* positions give no literal; DNF terms are ANDs of literals joined by OR,
\* CNF terms ORs of literals joined by AND.
C9_Polarity ==
    (pc = "iterating" /\ ReturnedSolution) =>
        RendersAs(yielded[Len(yielded)], YieldedImplicants, vt.input_variable_names,
                  emit_dnf, IF emit_dnf THEN 0 ELSE 1)

\* C9 witness: a CNF expression of several terms was yielded whose
\* implicants have masked positions and value bits of both kinds.
C9_Witness ==
    /\ pc = "iterating"
    /\ ReturnedSolution
    /\ ~emit_dnf
    /\ Cardinality(YieldedImplicants) >= 2
    /\ \E i \in YieldedImplicants :
           /\ i.mask # 0
           /\ \E b, c \in 0..(input_variable_count(vt) - 1) :
                  /\ Bit(i.mask, b) = 0 /\ Bit(i.value, b) = 1
                  /\ Bit(i.mask, c) = 0 /\ Bit(i.value, c) = 0

\* C10: a storage written by to_string and read by from_string with the same
\* variable count has the same entry at every index.
C10_RoundTrip ==
    pc = "read_back" =>
        /\ stor_back.variable_count = stor.variable_count
        /\ \A index \in 0..(table_entry_count(stor.variable_count) - 1) :
               GetItem(stor_back, index) = GetItem(stor, index)
        /\ StorageIter(stor_back) = StorageIter(stor)

\* C10 witness: the round trip of a storage with an Undefined entry whose
\* text is shorter than the full width because its top entries are Low.
C10_Witness ==
    /\ pc = "read_back"
    /\ stor.variable_count = 2
    /\ has_undefined_values(stor)
    /\ GetItem(stor, 3) = Low
    /\ GetItem(stor, 2) = Low
    /\ Len(stor_text) = 1

\* The entry a value passed to __setitem__ stands for
EntryMeant(entryvalue) ==
    IF entryvalue.type = "str"
    THEN (CASE entryvalue.text = "0" -> Low
            [] entryvalue.text = "1" -> High
            [] entryvalue.text = "*" -> DontCare)
    ELSE entryvalue.value

\* The entry the most recent call in the log set at an index, Undefined when
\* no call set it
LastSet(log, index) ==
    LET calls == { j \in 1..Len(log) : log[j].index = index }
    IN  IF calls = {} THEN Undefined
        ELSE EntryMeant(log[CHOOSE j \in calls : \A h \in calls : h <= j].entryvalue)

\* C11: after any sequence of __setitem__ calls on a fresh storage of k
\* variables, the entry read at each index is the one most recently set
\* there, Undefined if none was (so a call changes no other index);
\* iteration yields 2^k entries and the packed integer stays below
\* 2^(2 * 2^k).
C11_GetSet ==
    pc \in { "fresh", "set", "refused" } =>
        LET count == table_entry_count(stor.variable_count)
        IN  /\ \A index \in 0..(count - 1) : GetItem(stor, index) = LastSet(set_log, index)
            /\ Len(StorageIter(stor)) = count
            /\ \A i \in 1..count : StorageIter(stor)[i] = LastSet(set_log, i - 1)
            /\ stor.value >= 0
            /\ stor.value < Pow(2, 2 * count)

\* C11 witness: one index of a two-variable storage was set twice, to High
\* and then to "*", and the other indices were never set.
C11_Witness ==
    /\ pc = "set"
    /\ stor.variable_count = 2
    /\ Len(set_log) = 2
    /\ set_log[1].index = 1
    /\ set_log[2].index = 1
    /\ set_log[1].entryvalue = EntryValue(High)
    /\ set_log[2].entryvalue = StrValue("*")


-----------------------------------------------------------------------------
(* Properties of the canonical forms and of the compact text.              *)

\* The storage of the output column an operation was applied to
CurrentOutput == vt.named_outputs[cur_varname]

\* C14: the canonical DNF of an output evaluates to 1 exactly at the
\* assignments whose entry is High and the canonical CNF evaluates to 0
\* exactly at the assignments whose entry is Low; an output without a High
\* entry has the CDNF Constant(0), one without a Low entry the CCNF
\* Constant(1).
C14_CanonicalForms ==
    /\ pc = "cdnf" =>
          /\ \A index \in Indices(vt) :
                (Evaluate(result, index_to_dict(vt, index)) = 1)
                    <=> (GetItem(CurrentOutput, index) = High)
          /\ indices_with_value(CurrentOutput, High) = << >> => result = Constant(0)
    /\ pc = "ccnf" =>
          /\ \A index \in Indices(vt) :
                (Evaluate(result, index_to_dict(vt, index)) = 0)
                    <=> (GetItem(CurrentOutput, index) = Low)
          /\ indices_with_value(CurrentOutput, Low) = << >> => result = Constant(1)

\* A storage holds only Low, High and DontCare entries and no bit beyond
\* its 2^k entries
IsResolved(storage) ==
    /\ ~has_undefined_values(storage)
    /\ storage.value < Pow(4, table_entry_count(storage.variable_count))

\* C17: every table a construction path returns (a compact text, an
\* expression, a text file under any policy) has only Low, High and DontCare
\* entries in every output storage; a compact text whose blob encodes an
\* Undefined entry or more than 2^k entries is rejected.
C17_NoUndefinedTable ==
    /\ (pc \in { "parsed", "finished" } /\ ~IsError(result)) =>
          \A i \in 1..Len(result.output_values) : IsResolved(result.output_values[i])
    /\ (pc = "created" /\ ~IsError(vt)) =>
          \A i \in 1..Len(vt.output_values) : IsResolved(vt.output_values[i])

\* The compact text the format describes: names and blobs separated by
\* commas inside the three sections
CompactForm(table) ==
    << ":" >> \o JoinText(",", table.input_variable_names)
    \o << ":" >> \o JoinText(",", table.output_variable_names)
    \o << ":" >> \o JoinText(",", [ i \in 1..Len(table.output_values) |->
                                      to_string(table.output_values[i]) ])

\* The sections of a compact text after its leading colon
Sections(compact_str) == Split(SubSeq(compact_str, 2, Len(compact_str)), ":")

\* C18: the compact text of a table has the form
\* :in1,...:out1,...:hex1,...,hexn, reading it back gives the same names and
\* the same entry at every index of every output, and a text whose number
\* of blobs differs from its number of output names is rejected.
C18_CompactRoundTrip ==
    /\ pc = "printed" => cur_compact = CompactForm(vt)
    /\ (pc = "parsed" /\ ~compact_is_input) =>
          /\ ~IsError(result)
          /\ result.input_variable_names = vt.input_variable_names
          /\ result.output_variable_names = vt.output_variable_names
          /\ \A i \in 1..Len(vt.output_values) :
                StorageIter(result.output_values[i]) = StorageIter(vt.output_values[i])
    /\ (pc = "parsed" /\ compact_is_input /\ Len(Sections(cur_compact)) = 3) =>
          (Len(Split(Sections(cur_compact)[2], ",")) # Len(Split(Sections(cur_compact)[3], ","))
              => IsError(result))

-----------------------------------------------------------------------------
(* Properties of tables made from expressions and of comparison.           *)

\* The don't-care expression can be evaluated at the assignments of the
\* expression: there is none, or it names only variables of the expression
DcEvaluable ==
    cur_other = None
    \/ Range(expr_variables(cur_other)) \subseteq Range(expr_variables(cur_expr))

\* The compact text of the table made from lhs op rhs over A and B
TextOfOperator(op) ==
    print_compact(create_from_expression(OutputName,
        BinaryOperator(Variable(Names[1]), op, Variable(Names[2])), None))

SelfVars == Range(expr_variables(cur_expr))

OtherVars == Range(expr_variables(cur_other))

Comparable == SelfVars \subseteq OtherVars \/ OtherVars \subseteq SelfVars

\* C19 as stated: comparing fails exactly when neither variable set is a
\* subset of the other, and any two expressions over disjoint variable sets
\* are rejected.
C19_DisjointRejected ==
    pc \in { "compared", "eq" } =>
        /\ IsError(result) <=> ~Comparable
        /\ SelfVars \cap OtherVars = {} => IsError(result)

\* C19: comparing e1 with e2 (compare_to_expression or ==) fails exactly when
\* neither variable set is a subset of the other, so two expressions over
\* disjoint variable sets are rejected when both sets are non-empty, while
\* an expression without variables is comparable with every expression;
\* a failed comparison is the ValueError alone, without rows or verdict.
C19_CompareValidity ==
    pc \in { "compared", "eq" } =>
        /\ IsError(result) <=> ~Comparable
        /\ (SelfVars \cap OtherVars = {} /\ SelfVars # {} /\ OtherVars # {})
              => IsError(result)
        /\ (SelfVars = {} \/ OtherVars = {}) => ~IsError(result)
        /\ IsError(result) =>
              result = ValueError("Cannot compare expressions with different variables.")
        /\ (pc = "compared" /\ ~IsError(result)) => result.kind = "rows"
        /\ (pc = "eq" /\ ~IsError(result)) => result.kind = "bool"

\* A == B is rejected
C19_Witness ==
    /\ pc = "eq"
    /\ cur_expr = Variable(Names[1])
    /\ cur_other = Variable(Names[2])
    /\ IsError(result)

\* The expression with the larger variable set and the other one, as
\* compare_to_expression orders them
LargerExpr == IF OtherVars \subseteq SelfVars THEN cur_expr ELSE cur_other

SmallerExpr == IF OtherVars \subseteq SelfVars THEN cur_other ELSE cur_expr

LargerVars == Range(expr_variables(LargerExpr))

\* An assignment restricted to the variables an expression references
Restrict(assignment, expr) ==
    [ varname \in Range(expr_variables(expr)) |-> assignment[varname] ]

\* The assignments over the larger variable set at which the two
\* expressions differ
DivergingAssignments ==
    { a \in [ LargerVars -> { 0, 1 } ] :
        Evaluate(LargerExpr, a) # Evaluate(SmallerExpr, Restrict(a, SmallerExpr)) }

\* The rows of a comparison: one for each assignment over the larger
\* variable set, with the value of each expression at it
RowsAreComplete(rows) ==
    /\ Len(rows) = Pow(2, Cardinality(LargerVars))
    /\ { rows[n].value_dict : n \in 1..Len(rows) } = [ LargerVars -> { 0, 1 } ]
    /\ \A n \in 1..Len(rows) :
          /\ rows[n].eval1 = Evaluate(LargerExpr, rows[n].value_dict)
          /\ rows[n].eval2 = Evaluate(SmallerExpr, Restrict(rows[n].value_dict, SmallerExpr))

\* The assignments of the lines the equality command printed
ReportedAssignments ==
    { result.output[n].value_dict :
        n \in { m \in 1..Len(result.output) : result.output[m].line = "Not equal" } }

\* C20 as stated: the comparison yields one row per assignment over the
\* larger variable set with both values, == is True exactly when no row
\* differs, and every diverging assignment is reported.
C20_EveryDivergenceReported ==
    /\ (pc = "compared" /\ Comparable) => RowsAreComplete(result.rows)
    /\ (pc = "eq" /\ Comparable) => (result.truth <=> DivergingAssignments = {})
    /\ (pc = "equal_run" /\ Comparable) => ReportedAssignments = DivergingAssignments

\* C20: the comparison yields one row per assignment over the larger
\* variable set with both values, the smaller expression evaluated on the
\* same assignment; == is True exactly when no row differs; the equality
\* command returns 0 exactly then, and otherwise returns 1 after reporting
\* only the first diverging assignment in the order of the rows.
C20_CompareResult ==
    /\ (pc = "compared" /\ Comparable) =>
          /\ RowsAreComplete(result.rows)
          /\ { result.rows[n].value_dict :
                 n \in { m \in 1..Len(result.rows) : result.rows[m].eval1 # result.rows[m].eval2 } }
                = DivergingAssignments
    /\ (pc = "eq" /\ Comparable) => (result.truth <=> DivergingAssignments = {})
    /\ (pc = "equal_run" /\ Comparable) =>
          /\ (result.status = 0) <=> (DivergingAssignments = {})
          /\ result.status \in { 0, 1 }
          /\ Len(result.output) = 1
          /\ ReportedAssignments \subseteq DivergingAssignments
          /\ Cardinality(ReportedAssignments) = IF DivergingAssignments = {} THEN 0 ELSE 1
          /\ \A a \in ReportedAssignments :
                \A d \in DivergingAssignments :
                    dict_to_index(create_from_expression(OutputName, LargerExpr, None), a)
                      <= dict_to_index(create_from_expression(OutputName, LargerExpr, None), d)

\* A ^ B compared with A by the equality command: they differ at two
\* assignments, of which the command reports the first
C20_Witness ==
    /\ pc = "equal_run"
    /\ cur_expr = BinaryOperator(Variable(Names[1]), "Xor", Variable(Names[2]))
    /\ cur_other = Variable(Names[1])
    /\ result.status = 1
    /\ Cardinality(DivergingAssignments) = 2
    /\ Cardinality(ReportedAssignments) = 1

-----------------------------------------------------------------------------
(* Properties of reading a table from text.                                *)

\* The entry an output token stands for
TokenEntry(token) ==
    CASE token = "0" -> Low [] token = "1" -> High [] token = "*" -> DontCare

\* The cells of the table being read
Cells == 0..(Pow(2, Len(cur_header.input_variables)) - 1)

\* A row is well formed: one token per column, input tokens that are bits,
\* output tokens among 0, 1 and *
WellFormedRow ==
    /\ Len(cur_row) = Len(cur_header.input_indices) + Len(cur_header.output_indices)
    /\ \A n \in 1..Len(cur_header.input_indices) :
          cur_row[cur_header.input_indices[n]] \in { "0", "1" }
    /\ \A n \in 1..Len(cur_header.output_indices) :
          cur_row[cur_header.output_indices[n]] \in { "0", "1", "*" }

\* C15: a row that addresses an assignment an earlier row addressed does
\* not fail; after any rows every cell holds the token of the last row that
\* addressed it and a cell no row addressed is still Undefined.
C15_Overwrite ==
    /\ (pc = "rows" /\ cur_lineno > 1) =>
          \A n \in 1..Len(cur_outputs) : \A index \in Cells :
              GetItem(cur_outputs[n], index) =
                  IF last_token[index] = << >> THEN Undefined
                  ELSE TokenEntry(last_token[index][n])
    /\ (pc = "rejected" /\ cur_lineno > 1) => ~WellFormedRow

\* Two rows were read and both addressed the same cell, which now holds the
\* DontCare of the second row
C15_Witness ==
    /\ pc = "rows"
    /\ cur_lineno = 3
    /\ Cardinality({ index \in Cells : last_token[index] # << >> }) = 1
    /\ Len(cur_header.input_variables) = 2
    /\ cur_row = << "1", "0", "*" >>
    /\ GetItem(cur_outputs[1], 2) = DontCare

\* The cells the rows left Undefined in at least one output column
UnsetCells ==
    { index \in Cells :
        \E n \in 1..Len(cur_outputs) : GetItem(cur_outputs[n], index) = Undefined }

\* C16: with the policy 'forbidden' parsing fails exactly when some cell is
\* still Undefined after all rows, and then returns no table; with a policy
\* v among 0, 1 and * exactly the Undefined cells become v in every output
\* column, every cell a row set keeps its value and the returned table has
\* no Undefined entry.
C16_UnspecifiedRows ==
    (pc = "finished" /\ cur_lineno >= 1) =>
        /\ cur_policy = "forbidden" => (IsError(result) <=> UnsetCells # {})
        /\ (cur_policy = "forbidden" /\ UnsetCells # {}) =>
              result = ValueError("Strict parsing was requested but not all input patterns were explicitly specified.")
        /\ cur_policy # "forbidden" =>
              /\ ~IsError(result)
              /\ result.input_variable_names = cur_header.input_variables
              /\ result.output_variable_names = cur_header.output_variables
              /\ \A n \in 1..Len(cur_outputs) : \A index \in Cells :
                    GetItem(result.output_values[n], index) =
                        IF GetItem(cur_outputs[n], index) = Undefined
                        THEN PolicyEntry(cur_policy)
                        ELSE GetItem(cur_outputs[n], index)
        /\ ~IsError(result) =>
              \A n \in 1..Len(result.output_values) : IsResolved(result.output_values[n])

\* A file of two output columns whose rows set one of the two cells, read
\* with the policy *: the other cell is DontCare in both columns
C16_Witness ==
    /\ pc = "finished"
    /\ cur_policy = "*"
    /\ Len(cur_outputs) = 2
    /\ UnsetCells = { 1 }
    /\ StorageIter(result.output_values[1]) = << High, DontCare >>
    /\ StorageIter(result.output_values[2]) = << Low, DontCare >>

-----------------------------------------------------------------------------
(* The one mapping between indices and assignments.                        *)

\* The assignment whose bit for the i-th of the names is bit k - i of the
\* index: the first name carries weight 2^(k-1), the last weight 1
AssignmentOf(names, index) ==
    [ name \in Range(names) |->
        Bit(index, Len(names) - (CHOOSE i \in 1..Len(names) : names[i] = name)) ]

\* The table the header and the storages of a text file make
FileTable ==
    ValueTable(cur_header.input_variables, cur_header.output_variables, cur_outputs)

\* The assignment the input tokens of the row read last spell
RowAssignment ==
    [ name \in Range(cur_header.input_variables) |->
        TokenInt(cur_row[cur_header.input_indices[
            CHOOSE n \in 1..Len(cur_header.input_variables) :
                cur_header.input_variables[n] = name]]) ]

\* The product term the minimizer renders for the single index
MintermOf(table, index) ==
    as_mterm(Implicant({ index }, index, 0),
             [ i \in 1..input_variable_count(table) |-> Variable(table.input_variable_names[i]) ],
             TRUE)

\* C12: in a table of k inputs the first input has weight 2^(k-1) and the
\* last weight 1; dict_to_index(index_to_dict(i)) = i for every index and
\* index_to_dict(dict_to_index(a)) = a for every full assignment; table(),
\* create_from_expression, the rows of a text file, at() and the literals
\* the minimizer renders all use this index.
C12_IndexBijection ==
    /\ pc = "table" =>
          /\ \A i \in 1..input_variable_count(vt) :
                index_weights(vt)[vt.input_variable_names[i]]
                    = Pow(2, input_variable_count(vt) - i)
          /\ \A index \in Indices(vt) :
                /\ index_to_dict(vt, index) = AssignmentOf(vt.input_variable_names, index)
                /\ \A a \in [ Range(vt.input_variable_names) -> { 0, 1 } ] :
                      Evaluate(MintermOf(vt, index), a) = 1 <=> a = index_to_dict(vt, index)
    /\ pc = "assignment" => cur_assignment = AssignmentOf(vt.input_variable_names, cur_index)
    /\ pc = "index" => cur_assignment = AssignmentOf(vt.input_variable_names, cur_index)
    /\ pc = "index_back" => result = cur_index
    /\ pc = "assignment_back" => result = cur_assignment
    /\ pc = "at" => result = GetItem(vt.named_outputs[cur_varname], cur_index)
    /\ pc = "enumerated" =>
          \A row \in 1..Len(result.rows) :
              result.rows[row].value_dict = AssignmentOf(expr_variables(cur_expr), row - 1)
    /\ (pc = "created" /\ ~IsError(vt)) =>
          \A row \in 1..state_count(cur_expr) :
              /\ dict_to_index(vt, expr_table(cur_expr)[row].value_dict) = row - 1
              /\ (cur_other = None) =>
                    at(vt, expr_table(cur_expr)[row].value_dict, OutputName)
                        = expr_table(cur_expr)[row].evaluation
    /\ (pc = "rows" /\ cur_lineno > 1 /\ WellFormedRow) =>
          /\ RowAssignment = AssignmentOf(cur_header.input_variables, cur_index)
          /\ dict_to_index(FileTable, RowAssignment) = cur_index
          /\ \A n \in 1..Len(cur_outputs) :
                at(FileTable, RowAssignment, cur_header.output_variables[n])
                    = TokenEntry(cur_row[cur_header.output_indices[n]])

\* In a table over A and B the index 2 was turned into the assignment
\* A = 1, B = 0 and back
C12_Witness ==
    /\ pc = "index_back"
    /\ input_variable_count(vt) = 2
    /\ cur_index = 2
    /\ cur_assignment[Names[1]] = 1
    /\ cur_assignment[Names[2]] = 0
    /\ result = 2

-----------------------------------------------------------------------------
(* Which value of a comparison row belongs to which expression.            *)

\* C28: in every row of e1.compare_to_expression(e2) the first value is
\* that of e1 and the second that of e2 at the row's assignment, whichever
\* expression has the larger variable set, and the equality command prints
\* the value of its first expression as LHS and of its second as RHS.
C28_SideAttribution ==
    /\ (pc = "compared" /\ Comparable) =>
          \A row \in 1..Len(result.rows) :
              /\ result.rows[row].eval1
                    = Evaluate(cur_expr, Restrict(result.rows[row].value_dict, cur_expr))
              /\ result.rows[row].eval2
                    = Evaluate(cur_other, Restrict(result.rows[row].value_dict, cur_other))
    /\ (pc = "equal_run" /\ Comparable) =>
          \A n \in 1..Len(result.output) :
              result.output[n].line = "Not equal" =>
                  /\ result.output[n].lhs
                        = Evaluate(cur_expr, Restrict(result.output[n].value_dict, cur_expr))
                  /\ result.output[n].rhs
                        = Evaluate(cur_other, Restrict(result.output[n].value_dict, cur_other))

-----------------------------------------------------------------------------
(* Properties of the merge and elimination stages and of Petrick's method. *)

\* The indices the mask and value of an implicant describe
CubeCells(implicant, k) ==
    { m \in 0..(Pow(2, k) - 1) : BitAndNot(m, implicant.mask) = implicant.value }

\* An implicant is a cube inside the mandatory and DontCare indices
IsUsableCube(implicant) ==
    /\ BitAndNot(implicant.value, implicant.mask) = implicant.value
    /\ implicant.minterms = CubeCells(implicant, input_variable_count(vt))
    /\ Cardinality(implicant.minterms) = Pow(2, BitCount(implicant.mask))
    /\ implicant.minterms \subseteq expr_minterms \cup dc_minterms

\* C25: after merging and elimination the surviving implicants are exactly
\* the maximal cubes inside the mandatory and DontCare indices: each has
\* value & mask = 0 and as minterms the 2^popcount(mask) indices m with
\* m & ~mask = value, none is a strict subset of a generated implicant,
\* every maximal cube appears exactly once, and merging takes at most k
\* rounds.
C25_PrimeImplicants ==
    /\ pc \in { "merging", "merged" } =>
          Cardinality(DOMAIN all_implicants) <= input_variable_count(vt) + 1
    /\ pc = "discarded" =>
          /\ \A implicant \in AllOf(all_implicants) : IsUsableCube(implicant)
          /\ { implicant.minterms : implicant \in AllOf(all_implicants) }
                = { cube.cells : cube \in UsableCubes(vt, emit_dnf) }
    /\ pc = "primes" =>
          /\ \A implicant \in AllOf(all_implicants) : IsUsableCube(implicant)
          /\ { implicant.minterms : implicant \in AllOf(all_implicants) }
                = { cube.cells : cube \in PrimeCubes(vt, emit_dnf) }
          /\ Cardinality(AllOf(all_implicants))
                = Cardinality({ cube.cells : cube \in PrimeCubes(vt, emit_dnf) })
          /\ \A implicant \in AllOf(all_implicants) :
                ~ \E cube \in UsableCubes(vt, emit_dnf) :
                      implicant.minterms \subseteq cube.cells
                      /\ implicant.minterms # cube.cells

\* The table High at 0 and 1 and Low elsewhere over A and B leaves the
\* single prime implicant {0, 1}; its two size-one implicants were
\* eliminated
C25_Witness ==
    /\ pc = "primes"
    /\ input_variable_count(vt) = 2
    /\ emit_dnf
    /\ expr_minterms = { 0, 1 }
    /\ dc_minterms = {}
    /\ AllOf(all_implicants) = { Implicant({ 0, 1 }, 0, 1) }

\* The terms of a set that include no other term of the set
WithoutStrictSubset(terms) ==
    { t \in terms : ~ \E u \in terms : u \subseteq t /\ u # t }

\* The minterms the multiplication loop has multiplied in so far
MultipliedMinterms == remaining_minterms \ pending_minterms

\* The implicants a term selects
SelectedImplicants(term) ==
    { InverseBit(candidate_implicants(remaining_minterms, all_implicants), bit) : bit \in term }

\* C26: _absorb(X) is exactly the set of the terms of X without a strict
\* bitwise subset in X ({I1, I1|I2} gives {I1}; {I1|I2, I1|I3} is unchanged;
\* {I1|I2, I1|I3, I3} gives {I1|I2, I3}); in Petrick's method the terms are
\* absorbed after every multiplication, and every term that survives
\* selects for each multiplied minterm, at the end for each remaining
\* mandatory minterm, an implicant that covers it.
C26_Absorption ==
    /\ pc = "absorbed" =>
          /\ result = WithoutStrictSubset(possible_solutions)
          /\ absorb({ { 0 }, { 0, 1 } }) = { { 0 } }
          /\ absorb({ { 0, 1 }, { 0, 2 } }) = { { 0, 1 }, { 0, 2 } }
          /\ absorb({ { 0, 1 }, { 0, 2 }, { 2 } }) = { { 0, 1 }, { 2 } }
    /\ (pc = "petrick" /\ MultipliedMinterms # {}) =>
          /\ Cardinality(MultipliedMinterms) > 1 =>
                possible_solutions = WithoutStrictSubset(possible_solutions)
          /\ \A term \in possible_solutions : \A minterm \in MultipliedMinterms :
                \E implicant \in SelectedImplicants(term) : minterm \in implicant.minterms

\* _absorb dropped two of four terms; and the multiplication of Petrick's
\* method ended with more than one term for several minterms
C26_Witness ==
    \/ /\ pc = "absorbed"
       /\ possible_solutions = { { 0 }, { 0, 1 }, { 1, 2 }, { 0, 1, 2 } }
       /\ result = { { 0 }, { 1, 2 } }
    \/ /\ pc = "petrick"
       /\ pending_minterms = {}
       /\ Cardinality(remaining_minterms) > 1
       /\ Cardinality(possible_solutions) > 1


\* The mandatory minterms of the table that only this implicant of a set covers
CoveredAlone(implicant, implicants) ==
    { minterm \in Mandatory(vt, emit_dnf) \cap implicant.minterms :
        \A other \in implicants : minterm \in other.minterms => other = implicant }

\* The mandatory minterms a set of implicants covers
CoveredBy(implicants) ==
    { minterm \in Mandatory(vt, emit_dnf) :
        \E implicant \in implicants : minterm \in implicant.minterms }

\* C27: in every solution the minimizer returns, each implicant covers a
\* mandatory minterm that no other implicant of the solution covers; no
\* implicant of a solution holds DontCare minterms only, and the solution
\* without any one of its implicants leaves a mandatory minterm uncovered.
C27_Irredundant ==
    ReturnedSolution =>
        \A j \in 1..solution_count(qmc_solution) :
            LET chosen == SolutionSet(qmc_solution, j)
            IN  \A implicant \in chosen :
                    /\ CoveredAlone(implicant, chosen) # {}
                    /\ implicant.minterms \cap Mandatory(vt, emit_dnf) # {}
                    /\ CoveredBy(chosen \ { implicant }) # Mandatory(vt, emit_dnf)

\* A returned solution of an essential and an additional implicant for a
\* table with a DontCare entry
C27_Witness ==
    /\ ReturnedSolution
    /\ dc_minterms # {}
    /\ qmc_solution.required_implicants # {}
    /\ \E j \in 1..solution_count(qmc_solution) :
          Len(qmc_solution.additional_implicants[j]) > 0


-----------------------------------------------------------------------------
(* The outputs of a ValueTable: __init__ and add_output_variable            *)
(* (ValueTable.py:114-143), called by ActionSatisfied.run with the names    *)
(* "Eval" and "Sat" (ActionSatisfied.py:47-48).                             *)

\* The most output variables a table is grown to
MaxOutputs == 3

EvalName == << "E", "v", "a", "l" >>

SatName == << "S", "a", "t" >>

\* ValueTable.add_output_variable: the table after the call, or the
\* AssertionError of line 140
add_output_variable(table, varname, storage) ==
    IF storage.variable_count # input_variable_count(table)
    THEN [ kind |-> "AssertionError" ]
    ELSE [ table EXCEPT
             !.output_variable_names = Append(@, varname),
             !.named_outputs =
                 [ name \in DOMAIN @ \cup { varname } |->
                     IF name = varname THEN storage ELSE @[name] ],
             !.output_values = Append(@, storage) ]

\* Storages of the table's size and one of a size too large
StorageSamples(k) ==
    { CompactStorage(k, 0), CompactStorage(k, 1), CompactStorage(k + 1, 0) }

\* The name lists and storage lists handed to the constructor
OutputNameLists ==
    UNION { [ 1..n -> { OutputName, EvalName } ] : n \in 1..2 }

StorageLists(k) ==
    UNION { [ 1..n -> StorageSamples(k) ] : n \in 1..2 }

OutputsInit ==
    /\ pc = "new"
    /\ vt = None
    /\ TableOpIdle
    /\ ExpressionIoIdle
    /\ compact_is_input = FALSE
    /\ cur_compact = << >>
    /\ cur_expr = None
    /\ cur_other = None

outputs_frame == << emit_dnf, expr_minterms, dc_minterms, all_implicants,
                   required_minterms, required_implicants, remaining_minterms,
                   pending_minterms, possible_solutions, qmc_solution, yielded,
                   stor_text, stor_back, set_log, cur_index, cur_assignment,
                   cur_compact, cur_expr, cur_other, cur_header, cur_lineno,
                   cur_outputs, last_token, compact_is_input, cur_policy, cur_row,
                   expr_text, default_empty, expr_format, implicit_and,
                   transformation_name >>

\* ValueTable(input_variable_names, output_variable_names, output_values)
Construct ==
    /\ pc = "new"
    /\ \E k \in 1..MaxVars : \E names \in OutputNameLists : \E values \in StorageLists(k) :
          LET table == ValueTable(SubSeq(Names, 1, k), names, values)
          IN  IF IsError(table)
              THEN /\ result' = table
                   /\ pc' = "rejected"
                   /\ UNCHANGED vt
              ELSE /\ vt' = table
                   /\ pc' = "constructed"
                   /\ UNCHANGED result
    /\ UNCHANGED << cur_varname, stor, outputs_frame >>

\* vt.add_output_variable(varname, storage); a call that raises leaves the
\* table as it was
AddOutputVariable ==
    /\ pc \in { "constructed", "added", "add_rejected" }
    /\ Len(vt.output_variable_names) < MaxOutputs
    /\ \E varname \in { OutputName, EvalName, SatName } :
       \E storage \in StorageSamples(input_variable_count(vt)) :
          LET outcome == add_output_variable(vt, varname, storage)
          IN  /\ cur_varname' = varname
              /\ stor' = storage
              /\ IF IsError(outcome)
                 THEN /\ result' = outcome
                      /\ pc' = "add_rejected"
                      /\ UNCHANGED vt
                 ELSE /\ vt' = outcome
                      /\ result' = None
                      /\ pc' = "added"
    /\ UNCHANGED outputs_frame

OutputsNext == Construct \/ AddOutputVariable

SpecOutputs == OutputsInit /\ [][OutputsNext]_vars

\* The invariant of a table's outputs: distinct names, as many storages as
\* names, at(a, name) reading the storage listed at the name's position,
\* and every storage of the table's size
OutputsAreConsistent(table) ==
    LET names == table.output_variable_names
    IN  /\ \A i, j \in 1..Len(names) : names[i] = names[j] => i = j
        /\ Len(table.output_values) = Len(names)
        /\ \A i \in 1..Len(names) : \A index \in Indices(table) :
              at(table, index_to_dict(table, index), names[i])
                  = GetItem(table.output_values[i], index)
        /\ \A i \in 1..Len(names) :
              table.output_values[i].variable_count = input_variable_count(table)

\* C29 (as claimed): after construction and after every add_output_variable
\* the output names are pairwise distinct, names and storages correspond
\* position by position, at(a, name) reads the storage added under the name
\* and every storage has the table's size; an add of an existing name or of
\* a storage of another size is rejected and leaves the table unchanged.
C29_OutputInvariant ==
    /\ pc \in { "constructed", "added", "add_rejected" } => OutputsAreConsistent(vt)
    /\ pc = "added" =>
          /\ stor.variable_count = input_variable_count(vt)
          /\ \A i \in 1..(Len(vt.output_variable_names) - 1) :
                vt.output_variable_names[i] # cur_varname
    /\ pc = "add_rejected" =>
          \/ stor.variable_count # input_variable_count(vt)
          \/ cur_varname \in Range(vt.output_variable_names)


-----------------------------------------------------------------------------
(* The expression parser (ExpressionParser.py:26-69, 344-393).  A text is  *)
(* a sequence of characters; a character outside ASCII is written by its   *)
(* code point, as in "U+2228".  The grammar is the one of the docstring of *)
(* ExpressionParser; the engine that runs it reads the tokens left to      *)
(* right, takes the first alternative that matches, repeats a loop while   *)
(* an alternative matches and accepts when the whole text is consumed.     *)

\* [a-zA-Z_], over the letters the texts of the model use
IdentifierStart == { "A", "B", "C", "D", "N", "O", "R", "_" }

\* [a-zA-Z0-9_]
IdentifierPart == IdentifierStart \cup { "0", "1" }

\* The token declarations of lines 348-355 and the inline tokens of line 380:
\* the token whose pattern matches at a character
TokenNameOf(char) ==
    CASE char \in { "|", "+" }      -> "or_op"
      [] char \in { "&", "*" }      -> "and_op"
      [] char = "^"                 -> "xor_op"
      [] char = "@"                 -> "nand_op"
      [] char = "%"                 -> "nor_op"
      [] char \in { "!", "-" }      -> "neg_op"
      [] char \in { "0", "1" }      -> "const"
      [] char \in IdentifierStart   -> "variable"
      [] char = "("                 -> "lparen"
      [] char = ")"                 -> "rparen"
      [] OTHER                      -> "invalid"

\* The position of the last character of the identifier that starts at pos
RECURSIVE IdentifierEnd(_, _)
IdentifierEnd(chars, pos) ==
    IF pos < Len(chars) /\ chars[pos + 1] \in IdentifierPart
    THEN IdentifierEnd(chars, pos + 1)
    ELSE pos

\* The tokens of a text from pos on; the separator is skipped
RECURSIVE Tokens(_, _)
Tokens(chars, pos) ==
    IF pos > Len(chars) THEN << >>
    ELSE IF chars[pos] = " " THEN Tokens(chars, pos + 1)
    ELSE LET name == TokenNameOf(chars[pos])
             last == IF name = "variable" THEN IdentifierEnd(chars, pos) ELSE pos
         IN  << [ name |-> name, chars |-> SubSeq(chars, pos, last) ] >>
                 \o Tokens(chars, last + 1)

\* Operator.lookup
lookup(symbol) ==
    CASE symbol \in { "+", "|" }      -> "Or"
      [] symbol \in { "*", "&" }      -> "And"
      [] symbol = "^"                 -> "Xor"
      [] symbol \in { "!", "-", "~" } -> "Not"
      [] symbol = "@"                 -> "Nand"
      [] symbol = "%"                 -> "Nor"
      [] OTHER                        -> "KeyError"

\* What a rule returns: the value and the position behind it, or no match
Matched(tree, pos) == [ kind |-> "Matched", tree |-> tree, pos |-> pos ]

WrongToken == [ kind |-> "WrongToken" ]

NameAt(toks, pos) == IF pos <= Len(toks) THEN toks[pos].name ELSE "EOF"

RECURSIVE Atom(_, _)
RECURSIVE Factor(_, _)
RECURSIVE FactorLoop(_, _, _)
RECURSIVE Term(_, _)
RECURSIVE TermLoop(_, _, _)
RECURSIVE Expr(_, _)
RECURSIVE ExprLoop(_, _, _)

\* Lines 376-381
Atom(toks, pos) ==
    CASE NameAt(toks, pos) = "variable" ->
            Matched(Variable(toks[pos].chars), pos + 1)
      [] NameAt(toks, pos) = "const" ->
            Matched(Constant(IF toks[pos].chars = << "1" >> THEN 1 ELSE 0), pos + 1)
      [] NameAt(toks, pos) = "neg_op" ->
            LET a == Atom(toks, pos + 1)
            IN  IF a.kind = "WrongToken" THEN WrongToken
                ELSE Matched(UnaryOperator(lookup(toks[pos].chars[1]), a.tree), a.pos)
      [] NameAt(toks, pos) = "lparen" ->
            LET inner == Expr(toks, pos + 1)
            IN  IF inner.kind = "WrongToken" \/ NameAt(toks, inner.pos) # "rparen"
                THEN WrongToken
                ELSE Matched(Parenthesis(inner.tree), inner.pos + 1)
      [] OTHER -> WrongToken

\* Lines 371-374: the loop of Factor, left at the first token no alternative
\* matches from
FactorLoop(toks, lhs, pos) ==
    LET explicit == IF NameAt(toks, pos) = "and_op" THEN Atom(toks, pos + 1) ELSE WrongToken
        adjacent == Atom(toks, pos)
    IN  IF explicit.kind = "Matched"
        THEN FactorLoop(toks, BinaryOperator(lhs, lookup(toks[pos].chars[1]), explicit.tree),
                        explicit.pos)
        ELSE IF adjacent.kind = "Matched"
        THEN FactorLoop(toks, BinaryOperator(lhs, lookup("*"), adjacent.tree), adjacent.pos)
        ELSE Matched(lhs, pos)

Factor(toks, pos) ==
    LET lhs == Atom(toks, pos)
    IN  IF lhs.kind = "WrongToken" THEN WrongToken
        ELSE FactorLoop(toks, lhs.tree, lhs.pos)

\* Lines 367-369
TermLoop(toks, lhs, pos) ==
    LET rhs == IF NameAt(toks, pos) = "nand_op" THEN Factor(toks, pos + 1) ELSE WrongToken
    IN  IF rhs.kind = "Matched"
        THEN TermLoop(toks, BinaryOperator(lhs, lookup(toks[pos].chars[1]), rhs.tree), rhs.pos)
        ELSE Matched(lhs, pos)

Term(toks, pos) ==
    LET lhs == Factor(toks, pos)
    IN  IF lhs.kind = "WrongToken" THEN WrongToken
        ELSE TermLoop(toks, lhs.tree, lhs.pos)

\* Mutant: the right operand of Or, Xor and Nor is a Factor.
ExprLoop_FactorOperand(toks, lhs, pos) ==
    LET rhs == IF NameAt(toks, pos) \in { "or_op", "xor_op", "nor_op" }
               THEN Factor(toks, pos + 1) ELSE WrongToken
    IN  IF rhs.kind = "Matched"
        THEN ExprLoop(toks, BinaryOperator(lhs, lookup(toks[pos].chars[1]), rhs.tree), rhs.pos)
        ELSE Matched(lhs, pos)

\* Lines 361-365
ExprLoop(toks, lhs, pos) ==
    LET rhs == IF NameAt(toks, pos) \in { "or_op", "xor_op", "nor_op" }
               THEN Term(toks, pos + 1) ELSE WrongToken
    IN  IF rhs.kind = "Matched"
        THEN ExprLoop(toks, BinaryOperator(lhs, lookup(toks[pos].chars[1]), rhs.tree), rhs.pos)
        ELSE Matched(lhs, pos)

Expr(toks, pos) ==
    LET lhs == Term(toks, pos)
    IN  IF lhs.kind = "WrongToken" THEN WrongToken
        ELSE ExprLoop(toks, lhs.tree, lhs.pos)

\* ExpressionParser()(expr): the tree of START, or the error of a character
\* that starts no token or of a token that no rule takes
ExpressionParser(chars) ==
    LET toks  == Tokens(chars, 1)
        start == Expr(toks, 1)
    IN  IF \E i \in 1..Len(toks) : toks[i].name = "invalid"
        THEN [ kind |-> "LexicalError" ]
        ELSE IF start.kind = "WrongToken" \/ start.pos # Len(toks) + 1
        THEN [ kind |-> "SyntaxError" ]
        ELSE start.tree

\* A default_empty argument that is a text
DefaultText(chars) == [ kind |-> "str", chars |-> chars ]

\* parse_expression(expr, default_empty)
parse_expression(chars, default) ==
    IF chars = << >> /\ default = None
    THEN ValueError("Expression may not be empty unless default empty is given.")
    ELSE ExpressionParser(IF chars = << >> THEN default.chars ELSE chars)

IsRejected(parsed) == parsed.kind \in { "LexicalError", "SyntaxError", "ValueError" }

\* ParseTreeElement.identical_to
RECURSIVE identical_to(_, _)
identical_to(self, other) ==
    CASE self.kind = "Variable" ->
            other.kind = "Variable" /\ self.varname = other.varname
      [] self.kind = "Constant" ->
            other.kind = "Constant" /\ self.value = other.value
      [] self.kind = "UnaryOperator" ->
            /\ other.kind = "UnaryOperator"
            /\ self.op = other.op
            /\ identical_to(self.rhs, other.rhs)
      [] self.kind = "BinaryOperator" ->
            /\ other.kind = "BinaryOperator"
            /\ self.op = other.op
            /\ identical_to(self.lhs, other.lhs)
            /\ identical_to(self.rhs, other.rhs)
      [] self.kind = "Parenthesis" ->
            other.kind = "Parenthesis" /\ identical_to(self.inner, other.inner)


-----------------------------------------------------------------------------
(* The text formatter (ExpressionFormatter.py:65-116, 159-182).            *)

\* Operator.precedence: the lowest value binds tightest
OperatorPrecedence(op) ==
    CASE op = "Not"  -> 9
      [] op = "And"  -> 10
      [] op = "Nand" -> 11
      [] op \in { "Or", "Xor", "Nor" } -> 12

\* Operator.associative
associative(op) == op \in { "And", "Or", "Xor" }

\* The precedence property of the node classes
precedence(expr) ==
    IF expr.kind \in { "UnaryOperator", "BinaryOperator" }
    THEN OperatorPrecedence(expr.op)
    ELSE 5

\* ExpressionFormatterText._ops (lines 69-88)
FormatterOps(op, pretty_print, implicit) ==
    CASE op = "Not" -> << "!" >>
      [] op = "And" /\ implicit -> << " " >>
      [] op = "And" -> IF pretty_print THEN << " ", "U+2227", " " >> ELSE << " ", "*", " " >>
      [] op = "Or"  -> IF pretty_print THEN << " ", "U+2228", " " >> ELSE << " ", "+", " " >>
      [] op = "Xor" -> IF pretty_print THEN << " ", "U+2295", " " >> ELSE << " ", "^", " " >>
      [] op = "Nand" -> IF pretty_print THEN << " ", "N", "A", "N", "D", " " >>
                        ELSE << " ", "@", " " >>
      [] op = "Nor" -> IF pretty_print THEN << " ", "N", "O", "R", " " >>
                       ELSE << " ", "%", " " >>

\* Line 102
RhsNeedsParenthesis(expr) ==
    \/ precedence(expr.rhs) > precedence(expr)
    \/ /\ precedence(expr.rhs) = precedence(expr)
       /\ (~associative(expr.op) \/ expr.op # expr.rhs.op)

\* Line 101
LhsNeedsParenthesis(expr) == precedence(expr.lhs) > precedence(expr)

\* ExpressionFormatterText.format_expression with _parenthesize (lines 91-116)
RECURSIVE FormatText(_, _, _)
FormatText(expr, pretty_print, implicit) ==
    LET parenthesize(inner, needs_parenthesis) ==
            IF needs_parenthesis
            THEN << "(" >> \o FormatText(inner, pretty_print, implicit) \o << ")" >>
            ELSE FormatText(inner, pretty_print, implicit)
    IN  CASE expr.kind = "Variable" -> expr.varname
          [] expr.kind = "BinaryOperator" ->
                parenthesize(expr.lhs, LhsNeedsParenthesis(expr))
                    \o FormatterOps(expr.op, pretty_print, implicit)
                    \o parenthesize(expr.rhs, RhsNeedsParenthesis(expr))
          [] expr.kind = "UnaryOperator" ->
                IF expr.rhs.kind \in { "Variable", "Constant" }
                THEN IF pretty_print /\ expr.op = "Not"
                     THEN FormatText(expr.rhs, pretty_print, implicit) \o << "U+0305" >>
                     ELSE FormatterOps(expr.op, pretty_print, implicit)
                              \o FormatText(expr.rhs, pretty_print, implicit)
                ELSE FormatterOps(expr.op, pretty_print, implicit)
                         \o parenthesize(expr.rhs, TRUE)
          [] expr.kind = "Constant" -> << IF expr.value = 1 THEN "1" ELSE "0" >>
          [] expr.kind = "Parenthesis" -> parenthesize(expr.inner, TRUE)

\* The formats of format_expression that ExpressionFormatterText writes
TextFormats == { "text", "pretty-text" }

\* format_expression(expression, expression_format, implicit_and), for the
\* formats "text" and "pretty-text"
format_expression(expression, expression_format, implicit) ==
    FormatText(expression, expression_format = "pretty-text", implicit)


-----------------------------------------------------------------------------
(* The transformations of ActionTransform.py:26-164.  A transformation     *)
(* returns a tree or the exception it raised.                              *)

\* NANDLogicTransformer._transform
RECURSIVE NandTransform(_)
NandTransform(expr) ==
    CASE expr.kind \in { "Variable", "Constant" } -> expr
      [] expr.kind = "Parenthesis" -> Parenthesis(NandTransform(expr.inner))
      [] expr.kind = "UnaryOperator" ->
            NandTransform(BinaryOperator(expr.rhs, "Nand", Constant(1)))
      [] expr.kind = "BinaryOperator" ->
            CASE expr.op = "Or" ->
                    NandTransform(BinaryOperator(
                        BinaryOperator(expr.lhs, "Nand", Constant(1)), "Nand",
                        BinaryOperator(expr.rhs, "Nand", Constant(1))))
              [] expr.op = "Nor" ->
                    NandTransform(Invert(BinaryOperator(expr.lhs, "Or", expr.rhs)))
              [] expr.op = "And" ->
                    NandTransform(BinaryOperator(
                        BinaryOperator(expr.lhs, "Nand", expr.rhs), "Nand", Constant(1)))
              [] expr.op = "Nand" ->
                    BinaryOperator(NandTransform(expr.lhs), "Nand", NandTransform(expr.rhs))
              [] expr.op = "Xor" ->
                    NandTransform(BinaryOperator(
                        BinaryOperator(Invert(expr.lhs), "Nand", expr.rhs), "Nand",
                        BinaryOperator(expr.lhs, "Nand", Invert(expr.rhs))))

\* Line 111: ~(~expr.lhs | ~expr.rhs)
NorOfAnd(expr) ==
    Invert(BinaryOperator(Invert(expr.lhs), "Or", Invert(expr.rhs)))

\* NORLogicTransformer._transform
RECURSIVE NorTransform(_)
NorTransform(expr) ==
    CASE expr.kind \in { "Variable", "Constant" } -> expr
      [] expr.kind = "Parenthesis" -> Parenthesis(NorTransform(expr.inner))
      [] expr.kind = "UnaryOperator" ->
            NorTransform(BinaryOperator(expr.rhs, "Nor", Constant(0)))
      [] expr.kind = "BinaryOperator" ->
            CASE expr.op = "Or" ->
                    NorTransform(Invert(BinaryOperator(expr.lhs, "Nor", expr.rhs)))
              [] expr.op = "Nor" ->
                    BinaryOperator(NorTransform(expr.lhs), "Nor", NorTransform(expr.rhs))
              [] expr.op = "And" -> NorTransform(NorOfAnd(expr))
              [] expr.op = "Nand" ->
                    NorTransform(Invert(BinaryOperator(expr.lhs, "And", expr.rhs)))
              [] expr.op = "Xor" ->
                    NorTransform(Invert(BinaryOperator(
                        BinaryOperator(Invert(expr.lhs), "Nor", expr.rhs), "Nor",
                        BinaryOperator(expr.lhs, "Nor", Invert(expr.rhs)))))

\* SimplificationTransformer._transform_unary: the third case names
\* Operator.Parenthesis, which the enumeration does not have, so reaching it
\* raises AttributeError
SimplifyUnary(expr) ==
    IF expr.op = "Not" /\ expr.rhs = Constant(0) THEN Constant(1)
    ELSE IF expr.op = "Not" /\ expr.rhs = Constant(1) THEN Constant(0)
    ELSE AttributeError("Parenthesis")

\* SimplificationTransformer._transform_binary
SimplifyBinary(expr) ==
    CASE expr.op = "And" /\ expr.rhs = Constant(0) -> Constant(0)
      [] expr.op = "And" /\ expr.rhs = Constant(1) -> expr.lhs
      [] expr.op = "Or" /\ expr.rhs = Constant(1)  -> Constant(1)
      [] expr.op = "Or" /\ expr.rhs = Constant(0)  -> expr.lhs
      [] expr.op = "Or" /\ identical_to(expr.lhs, expr.rhs)  -> expr.lhs
      [] expr.op = "And" /\ identical_to(expr.lhs, expr.rhs) -> expr.lhs
      [] OTHER -> expr

\* SimplificationTransformer._transform
RECURSIVE SimplifyTransform(_)
SimplifyTransform(expr) ==
    CASE expr.kind \in { "Variable", "Constant" } -> expr
      [] expr.kind = "BinaryOperator" -> SimplifyBinary(expr)
      [] expr.kind = "UnaryOperator" -> SimplifyUnary(expr)
      [] expr.kind = "Parenthesis" ->
            IF expr.inner.kind = "Parenthesis"
            THEN LET inner == SimplifyTransform(expr.inner.inner)
                 IN  IF IsError(inner) THEN inner ELSE Parenthesis(inner)
            ELSE expr

Transformations == { "nand", "nor", "simplify" }

\* ActionTransform.run, lines 171-185: transformer.transform(expr)
transform(name, expr) ==
    CASE name = "nand"     -> NandTransform(expr)
      [] name = "nor"      -> NorTransform(expr)
      [] name = "simplify" -> SimplifyTransform(expr)

-----------------------------------------------------------------------------
(* Behaviours of parse_expression, format_expression and the               *)
(* transformations: a text is parsed, the tree is formatted and the text   *)
(* parsed again; a tree built by the caller is formatted and parsed, or    *)
(* transformed.                                                            *)

\* The most characters of a text that is enumerated in full
MaxTextLen == 3

\* The most operator and Parenthesis nodes of a tree built by the caller
MaxNodes == 2

\* The characters of the enumerated texts: names, a constant, every operator
\* spelling of Operator.lookup, parentheses, a blank and a character of no
\* token
Alphabet == { "A", "B", "1", "+", "|", "*", "&", "^", "!", "-", "~", "@", "%",
              "(", ")", " ", "#" }

\* Texts of ExpressionFormatterTests.test_string_input and texts with the
\* other spellings, with a tilde and with an unbalanced parenthesis
TestTexts ==
    { << "!", "A", " ", "B", " ", "@", " ", "C" >>,
      << "A", " ", "+", " ", "B", " ", "C" >>,
      << "A", " ", "@", " ", "B", " ", "C" >>,
      << "A", " ", "%", " ", "B", " ", "@", " ", "C" >>,
      << "A", " ", "^", " ", "B", " ", "%", " ", "C", " ", "%", " ", "D" >>,
      << "!", "(", "A", " ", "+", " ", "B", ")" >>,
      << "!", "!", "A" >>,
      << "(", "A", " ", "B", ")", " ", "+", " ", "C", " ", "D" >>,
      << "A", " ", "+", " ", "-", "B", " ", "@", " ", "C" >>,
      << "A", " ", "%", " ", "(", "B", " ", "@", " ", "C", ")" >>,
      << "(", "(", "A", " ", "^", " ", "B", ")", " ", "%", " ", "C", ")", " ", "%", " ", "D" >>,
      << "A", " ", "@", " ", "(", "B", " ", "*", " ", "C", ")" >>,
      << "A", " ", "|", " ", "B", " ", "&", " ", "C" >>,
      << "~", "A", " ", "+", " ", "B" >>,
      << "(", "A", " ", "+", " ", "B" >>,
      << "A", " ", "+", " ", "B", ")" >> }

SourceTexts ==
    TestTexts \cup UNION { [ 1..n -> Alphabet ] : n \in 0..MaxTextLen }

\* The trees of n operator and Parenthesis nodes over the variables A and B
RECURSIVE TreesOfSize(_)
TreesOfSize(n) ==
    IF n = 0 THEN { Variable(Names[1]), Variable(Names[2]) }
    ELSE { Invert(t) : t \in TreesOfSize(n - 1) }
         \cup { Parenthesis(t) : t \in TreesOfSize(n - 1) }
         \cup UNION { { BinaryOperator(lhs, op, rhs) :
                          lhs \in TreesOfSize(i), op \in BinaryOperators,
                          rhs \in TreesOfSize(n - 1 - i) } : i \in 0..(n - 1) }

\* Trees whose right operand has the operator of the root and holds, on its
\* left, another operator of the same level, as B | ((A ^ B) | A)
MixedChains ==
    { BinaryOperator(Variable(Names[2]), outer,
          BinaryOperator(BinaryOperator(Variable(Names[1]), inner, Variable(Names[2])),
                         outer, Variable(Names[1]))) :
        outer \in { "Or", "Xor" }, inner \in { "Or", "Xor", "Nor" } }

\* The trees a caller builds: every tree of up to MaxNodes nodes, the
\* expressions with constants and the chains of mixed operators
BuiltTrees ==
    UNION { TreesOfSize(n) : n \in 0..MaxNodes } \cup Expressions(2) \cup MixedChains

ExpressionsInit ==
    /\ TableOpIdle
    /\ vt = None
    /\ compact_is_input = FALSE
    /\ cur_compact = << >>
    /\ cur_other = None
    /\ expr_format = ""
    /\ implicit_and = TRUE
    /\ transformation_name = ""
    /\ \/ /\ pc = "source"
          /\ expr_text \in SourceTexts
          /\ default_empty \in
                IF expr_text = << >> THEN { None, DefaultText(<< "0" >>) } ELSE { None }
          /\ cur_expr = None
       \/ /\ pc = "built"
          /\ expr_text = << >>
          /\ default_empty = None
          /\ cur_expr \in BuiltTrees

expressions_frame == << vt, emit_dnf, expr_minterms, dc_minterms, all_implicants,
                       required_minterms, required_implicants, remaining_minterms,
                       pending_minterms, possible_solutions, qmc_solution, yielded,
                       stor, stor_text, stor_back, set_log, cur_varname, cur_index,
                       cur_assignment, cur_compact, cur_header, cur_lineno,
                       cur_outputs, last_token, compact_is_input, cur_policy,
                       cur_row, default_empty >>

\* parse_expression(expr, default_empty) on a given text
ParseExpression ==
    /\ pc = "source"
    /\ LET parsed == parse_expression(expr_text, default_empty)
       IN  /\ result' = parsed
           /\ IF IsRejected(parsed)
              THEN pc' = "syntax_error" /\ UNCHANGED cur_expr
              ELSE pc' = "parsed" /\ cur_expr' = parsed
    /\ UNCHANGED << expr_text, cur_other, expr_format, implicit_and,
                    transformation_name, expressions_frame >>

\* format_expression(expression, expression_format, implicit_and) on a tree
\* that was parsed or built
FormatExpression ==
    /\ pc \in { "parsed", "built" }
    /\ \E format \in TextFormats : \E implicit \in BOOLEAN :
          /\ expr_format' = format
          /\ implicit_and' = implicit
          /\ expr_text' = format_expression(cur_expr, format, implicit)
    /\ pc' = IF pc = "parsed" THEN "parsed_formatted" ELSE "built_formatted"
    /\ UNCHANGED << result, cur_expr, cur_other, transformation_name, expressions_frame >>

\* parse_expression on the text format_expression returned
ParseFormatted ==
    /\ pc \in { "parsed_formatted", "built_formatted" }
    /\ cur_other' = parse_expression(expr_text, None)
    /\ pc' = IF pc = "parsed_formatted" THEN "parsed_again" ELSE "built_parsed"
    /\ UNCHANGED << result, cur_expr, expr_text, expr_format, implicit_and,
                    transformation_name, expressions_frame >>

\* One round of the loop of ActionTransform.run, up to transformer.transform
Transform ==
    /\ pc \in { "parsed", "built" }
    /\ \E name \in Transformations :
          /\ transformation_name' = name
          /\ result' = transform(name, cur_expr)
    /\ pc' = "transformed"
    /\ UNCHANGED << cur_expr, cur_other, expr_text, expr_format, implicit_and,
                    expressions_frame >>

ExpressionsNext == ParseExpression \/ FormatExpression \/ ParseFormatted \/ Transform

SpecExpressions == ExpressionsInit /\ [][ExpressionsNext]_vars


-----------------------------------------------------------------------------
(* Properties of the parser, the formatter and the transformations.        *)

\* The nodes of a tree
NodesOf(expr) == Range(Traverse(expr))

\* C23: Not binds tightest, then And (written or by juxtaposition), then
\* Nand, then Or, Xor and Nor on one level, and operators of one level group
\* left to right: in a parsed tree the left operand of an operator binds at
\* least as tight as the operator and the right operand tighter, and the
\* operand of Not is no operator; A + B C is Or(A, And(B, C)), A @ B C is
\* Nand(A, And(B, C)), A % B @ C is Nor(A, Nand(B, C)), A ^ B % C % D is
\* Nor(Nor(Xor(A, B), C), D), and a parenthesized sub-expression is kept as
\* a Parenthesis node around its tree.
C23_Precedence ==
    LET A == Variable(Names[1])
        B == Variable(Names[2])
        C == Variable(Names[3])
        D == Variable(Names[4])
        Parses(chars, tree) ==
            expr_text = chars => (pc = "parsed" /\ cur_expr = tree)
    IN  /\ pc = "parsed" =>
              \A node \in NodesOf(cur_expr) :
                  /\ node.kind = "BinaryOperator" =>
                        /\ precedence(node.lhs) <= precedence(node)
                        /\ precedence(node.rhs) < precedence(node)
                  /\ node.kind = "UnaryOperator" =>
                        /\ node.op = "Not"
                        /\ precedence(node.rhs) <= precedence(node)
        /\ pc \in { "parsed", "syntax_error" } =>
              /\ Parses(<< "A", " ", "+", " ", "B", " ", "C" >>, BinaryOperator(A, "Or", BinaryOperator(B, "And", C)))
              /\ Parses(<< "A", " ", "@", " ", "B", " ", "C" >>, BinaryOperator(A, "Nand", BinaryOperator(B, "And", C)))
              /\ Parses(<< "A", " ", "%", " ", "B", " ", "@", " ", "C" >>, BinaryOperator(A, "Nor", BinaryOperator(B, "Nand", C)))
              /\ Parses(<< "A", " ", "^", " ", "B", " ", "%", " ", "C", " ", "%", " ", "D" >>,
                        BinaryOperator(BinaryOperator(BinaryOperator(A, "Xor", B), "Nor", C),
                                       "Nor", D))
              /\ Parses(<< "(", "A", " ", "B", ")", " ", "+", " ", "C", " ", "D" >>,
                        BinaryOperator(Parenthesis(BinaryOperator(A, "And", B)), "Or",
                                       BinaryOperator(C, "And", D)))
              /\ Parses(<< "!", "A", " ", "B", " ", "@", " ", "C" >>,
                        BinaryOperator(BinaryOperator(Invert(A), "And", B), "Nand", C))

\* A ^ B % C % D was parsed to a chain of three operators of one level
C23_Witness ==
    /\ pc = "parsed"
    /\ expr_text = << "A", " ", "^", " ", "B", " ", "%", " ", "C", " ", "%", " ", "D" >>
    /\ cur_expr.kind = "BinaryOperator"
    /\ cur_expr.op = "Nor"
    /\ cur_expr.lhs.kind = "BinaryOperator"
    /\ cur_expr.lhs.lhs.op = "Xor"


\* A text with every operator written in its first spelling
Respell(chars) ==
    [ i \in 1..Len(chars) |->
        CASE chars[i] = "|"            -> "+"
          [] chars[i] = "&"            -> "*"
          [] chars[i] \in { "-", "~" } -> "!"
          [] OTHER                     -> chars[i] ]

\* The characters of the tokens of the interface, and the blank
TokenCharacters ==
    IdentifierPart \cup { "+", "|", "*", "&", "^", "!", "-", "~", "@", "%", "(", ")", " " }

CountOf(chars, char) == Cardinality({ i \in 1..Len(chars) : chars[i] = char })

\* C24 (as claimed): parse accepts + and | for Or, * and & and adjacency for
\* And, ^ for Xor, each of !, - and ~ for Not, @ for Nand and % for Nor, and
\* a text in another spelling of its operators gives an identical tree; a
\* text with any other token, with unbalanced parentheses, or an empty text
\* without a default is rejected.
C24_AcceptedTokens ==
    LET A == Variable(Names[1])
        B == Variable(Names[2])
        respelled == parse_expression(Respell(expr_text), default_empty)
    IN  pc \in { "parsed", "syntax_error" } =>
          /\ \A symbol \in { "+", "|", "*", "&", "^", "@", "%", " " } :
                expr_text = << "A", symbol, "B" >> =>
                    /\ pc = "parsed"
                    /\ cur_expr = BinaryOperator(A, lookup(IF symbol = " " THEN "*" ELSE symbol), B)
          /\ \A symbol \in { "!", "-", "~" } :
                expr_text = << symbol, "A" >> =>
                    (pc = "parsed" /\ cur_expr = Invert(A))
          /\ IsRejected(respelled) <=> pc = "syntax_error"
          /\ pc = "parsed" => identical_to(cur_expr, respelled)
          /\ (\E i \in 1..Len(expr_text) : expr_text[i] \notin TokenCharacters) =>
                pc = "syntax_error"
          /\ CountOf(expr_text, "(") # CountOf(expr_text, ")") => pc = "syntax_error"
          /\ (expr_text = << >> /\ default_empty = None) => pc = "syntax_error"

\* The variables of a tree, as a set of names
VarNames(expr) ==
    { node.varname : node \in { n \in NodesOf(expr) : n.kind = "Variable" } }

\* Two trees evaluate alike under every assignment of their variables
TruthTableEquivalent(self, other) ==
    \A var_dict \in [ VarNames(self) \cup VarNames(other) -> { 0, 1 } ] :
        Evaluate(self, var_dict) = Evaluate(other, var_dict)

\* C22 (as claimed): for every text s the parser accepts, the tree
\* parse(format(parse(s))) in the default text format is structurally
\* identical to parse(s), also when s negates a parenthesized expression or
\* another negation, as !(A + B) and !!A do.
C22_StructuralRoundTrip ==
    (pc = "parsed_again" /\ expr_format = "text" /\ implicit_and) =>
        /\ ~IsRejected(cur_other)
        /\ identical_to(cur_expr, cur_other)

\* C21 (as claimed): for every tree, parsed or built, and every output
\* format, parse(format(e)) succeeds and is truth-table-equivalent to e.
\* (The text of the format "text" is parsed to another function for a tree
\* of MixedChains; the texts of the format "pretty-text" are not parsed.)
C21_EveryFormat ==
    pc \in { "parsed_again", "built_parsed" } =>
        /\ ~IsRejected(cur_other)
        /\ TruthTableEquivalent(cur_expr, cur_other)

\* The operator nodes of a tree are all binary with the given operator
OnlyOperator(expr, op) ==
    \A node \in NodesOf(expr) :
        /\ node.kind # "UnaryOperator"
        /\ node.kind = "BinaryOperator" => node.op = op

\* C30 (as claimed): for every expression the NAND transformation returns an
\* equivalent expression whose operator nodes are all binary Nand, the NOR
\* transformation one whose operator nodes are all binary Nor, and the
\* simplification returns an equivalent expression without raising.
C30_Transformations ==
    pc = "transformed" =>
        /\ ~IsError(result)
        /\ TruthTableEquivalent(cur_expr, result)
        /\ transformation_name = "nand" => OnlyOperator(result, "Nand")
        /\ transformation_name = "nor" => OnlyOperator(result, "Nor")

====
